---- MODULE Spec2Model ----
(***************************************************************************)
(* Model of src/src/server/main.py: the line-oriented command server of   *)
(* the Grove shield firmware.  Text is modelled as sequences of           *)
(* one-character strings so that parsing, trimming, case folding and      *)
(* number formatting are computed the way the Python code computes them.  *)
(***************************************************************************)
EXTENDS Integers, Sequences, FiniteSets, TLC

(***************************************************************************)
(* Python str primitives used by the program                               *)
(***************************************************************************)

UpperChars == <<"A","B","C","D","E","F","G","H","I","J","K","L","M",
                "N","O","P","Q","R","S","T","U","V","W","X","Y","Z">>

LowerChars == <<"a","b","c","d","e","f","g","h","i","j","k","l","m",
                "n","o","p","q","r","s","t","u","v","w","x","y","z">>

DigitChars == <<"0","1","2","3","4","5","6","7","8","9">>

\* str.strip() with no argument removes these characters.
IsSpace(c) == c \in {" ", "\t", "\n", "\r", "\f"}

lower_char(c) ==
    IF \E i \in 1..Len(UpperChars) : UpperChars[i] = c
    THEN LowerChars[CHOOSE i \in 1..Len(UpperChars) : UpperChars[i] = c]
    ELSE c

\* Python evaluates an argument once, before the call: F applied to the
\* value of x.
CallByValue(F(_), x) == CHOOSE r \in {F(v) : v \in {x}} : TRUE

\* str.lower()
lower(s) == CallByValue(LAMBDA v : [i \in 1..Len(v) |-> lower_char(v[i])], s)

\* str.strip()
strip(s) ==
    CallByValue(LAMBDA v :
        IF \A i \in 1..Len(v) : IsSpace(v[i]) THEN <<>>
        ELSE SubSeq(v, CHOOSE i \in 1..Len(v) :
                           ~IsSpace(v[i]) /\ \A j \in 1..(i - 1) : IsSpace(v[j]),
                       CHOOSE i \in 1..Len(v) :
                           ~IsSpace(v[i]) /\ \A j \in (i + 1)..Len(v) : IsSpace(v[j])),
        s)

\* str.find(c): 0-based index of the first occurrence, -1 when absent.
find(s, c) ==
    CallByValue(LAMBDA v :
        IF \A i \in 1..Len(v) : v[i] # c THEN -1
        ELSE (CHOOSE i \in 1..Len(v) : v[i] = c /\ \A j \in 1..(i - 1) : v[j] # c) - 1,
        s)

\* str.rfind(c): 0-based index of the last occurrence, -1 when absent.
rfind(s, c) ==
    CallByValue(LAMBDA v :
        IF \A i \in 1..Len(v) : v[i] # c THEN -1
        ELSE (CHOOSE i \in 1..Len(v) :
                  v[i] = c /\ \A j \in (i + 1)..Len(v) : v[j] # c) - 1,
        s)

\* s[a:b] for 0 <= a, 0 <= b (Python slice, end clipped to len(s)).
slice(s, a, b) ==
    CallByValue(LAMBDA v :
        CallByValue(LAMBDA e : IF a >= e THEN <<>> ELSE SubSeq(v, a + 1, e),
                    IF b > Len(v) THEN Len(v) ELSE b),
        s)

\* str.replace(old, new) for one-character old and new.
replace(s, old, new) ==
    CallByValue(LAMBDA v : [i \in 1..Len(v) |-> IF v[i] = old THEN new ELSE v[i]], s)

\* str.split(","), and str.split(",", 1) when once is TRUE.
RECURSIVE split(_, _)
split(s, once) ==
    CallByValue(LAMBDA v :
        CallByValue(LAMBDA k :
            IF k < 0 THEN <<v>>
            ELSE IF once THEN <<slice(v, 0, k), slice(v, k + 1, Len(v))>>
            ELSE <<slice(v, 0, k)>> \o split(slice(v, k + 1, Len(v)), once),
            find(v, ",")),
        s)

\* str(n) for an integer n.
RECURSIVE NatStr(_)
NatStr(n) ==
    IF n < 10 THEN <<DigitChars[n + 1]>>
    ELSE NatStr(n \div 10) \o <<DigitChars[(n % 10) + 1]>>

IntStr(n) == IF n < 0 THEN <<"-">> \o NatStr(-n) ELSE NatStr(n)

IsDigit(c) == \E i \in 1..Len(DigitChars) : DigitChars[i] = c

DigitVal(c) == (CHOOSE i \in 1..Len(DigitChars) : DigitChars[i] = c) - 1

RECURSIVE DigitsVal(_)
DigitsVal(s) ==
    IF Len(s) = 0 THEN 0
    ELSE 10 * DigitsVal(SubSeq(s, 1, Len(s) - 1)) + DigitVal(s[Len(s)])

\* int(token) wrapped as in _parse_int: [ok |-> FALSE] stands for None.
\* int() accepts surrounding whitespace, one optional sign and decimal digits.
_parse_int(token) ==
    CallByValue(LAMBDA t :
        LET sgn == Len(t) > 0 /\ t[1] \in {"+", "-"}
        IN  CallByValue(LAMBDA body :
                IF Len(body) > 0 /\ \A i \in 1..Len(body) : IsDigit(body[i])
                THEN [ok |-> TRUE,
                      val |-> IF sgn /\ t[1] = "-" THEN -DigitsVal(body)
                              ELSE DigitsVal(body)]
                ELSE [ok |-> FALSE],
                IF sgn THEN Tail(t) ELSE t),
        strip(token))

(***************************************************************************)
(* Command parser                                                          *)
(***************************************************************************)

\* Variant: the argument list ends at the first ")" of the line.
_parse_call_first_close(line) ==
    IF Len(line) = 0 THEN [ok |-> FALSE]
    ELSE CallByValue(LAMBDA s :
             IF Len(s) = 0 THEN [ok |-> FALSE]
             ELSE CallByValue(LAMBDA l :
                      CallByValue(LAMBDA r :
                          IF l <= 0 \/ r <= l THEN [ok |-> FALSE]
                          ELSE [ok |-> TRUE,
                                name |-> strip(slice(s, 0, l)),
                                args_str |-> strip(slice(s, l + 1, r))],
                          find(s, ")")),
                      find(s, "(")),
             strip(line))

\* _parse_call: [ok |-> FALSE] stands for (None, None).
_parse_call(line) ==
    IF Len(line) = 0 THEN [ok |-> FALSE]
    ELSE CallByValue(LAMBDA s :
             IF Len(s) = 0 THEN [ok |-> FALSE]
             ELSE CallByValue(LAMBDA l :
                      CallByValue(LAMBDA r :
                          IF l <= 0 \/ r <= l THEN [ok |-> FALSE]
                          ELSE [ok |-> TRUE,
                                name |-> strip(slice(s, 0, l)),
                                args_str |-> strip(slice(s, l + 1, r))],
                          rfind(s, ")")),
                      find(s, "(")),
             strip(line))

_split_args(args_str, maxsplit) ==
    IF Len(args_str) = 0 THEN <<>>
    ELSE CallByValue(LAMBDA kept : [i \in 1..Len(kept) |-> strip(kept[i])],
                     SelectSeq(split(args_str, maxsplit = 1),
                               LAMBDA p : strip(p) # <<>>))

(***************************************************************************)
(* Device registry and the state the adapters keep                         *)
(*                                                                         *)
(* A device context d is the record                                        *)
(*   pins       digital pin -> [mode, value]  (direction, output latch)    *)
(*   pwm        _PWM_CACHE: pin -> channel [id, freq, freq_calls, duty]    *)
(*   pwm_made   per pin, the number of PWM objects constructed so far      *)
(*   lcd_driver whether lcd1602 was importable (LCD1602 is not None) and   *)
(*              whether its class has set_rgb                              *)
(*   lcd_cache  _LCD_CACHE: bus key -> handle                              *)
(*   lcd_made   per bus, the number of LCD1602 objects constructed so far  *)
(*   lcd_hw     the display module on each bus: rows, cursor, backlight    *)
(*   dht_cache  _DHT_CACHE: <<pin, module_type>> -> <<temp, hum>>          *)
(*   stdout     what the current command has written to sys.stdout         *)
(*   calls      the driver calls the current command has made, in order    *)
(*   caught     the exception an except clause of handle_command caught    *)
(*              during the current command, "" if none                     *)
(* Temperatures and humidities are counted in tenths.                      *)
(***************************************************************************)

ANALOG_PINS == {0, 1, 2}

DIGITAL_PINS == {16, 18, 20}

I2C_BUSES == {<<"i","2","c","0">>, <<"i","2","c","1">>}

\* machine.Pin(n, ...) raises ValueError unless n is a GPIO of the RP2040.
ValidGpio(n) == n \in 0..29

\* A 16x2 character display: what the cells of one row show when blank.
BlankRow == [i \in 1..16 |-> " "]

Ok(d, ret) == [d |-> d, exc |-> "", ret |-> ret]

Raise(d, e) == [d |-> d, exc |-> e, ret |-> 0]

Log(d, op, id, arg) ==
    [d EXCEPT !.calls = Append(@, [op |-> op, id |-> id, arg |-> arg])]

Put(f, k, v) == [x \in (DOMAIN f) \cup {k} |-> IF x = k THEN v ELSE f[x]]

\* sys.stdout.write(s)
Write(d, s) == [d EXCEPT !.stdout = @ \o s]

\* pin.init(mode=m)
PinInitMode(d, p, m) ==
    Log([d EXCEPT !.pins[p].mode = m], "Pin.init", p, <<m>>)

\* pin.init(mode=Pin.OUT, value=v)
PinInitOut(d, p, v) ==
    Log([d EXCEPT !.pins[p] = [mode |-> "OUT", value |-> v]], "Pin.init", p, <<"OUT", v>>)

\* pin.value(v)
PinSet(d, p, v) ==
    Log([d EXCEPT !.pins[p].value = v], "Pin.value", p, <<v>>)

\* pin.value(): an output pin reads back its latch, an input pin reads the
\* level the attached circuit puts on it.
PinGet(d, p, hw) == IF d.pins[p].mode = "OUT" THEN d.pins[p].value ELSE hw.level

(***************************************************************************)
(* Responses                                                               *)
(***************************************************************************)

send_error(d) == Write(d, <<"e","r","r","o","r","\n">>)

send_number(d, n) == Write(d, IntStr(n) \o <<"\n">>)

\* "{}".format(float(x)) for x given in tenths.
FloatStr(t) ==
    LET a == IF t < 0 THEN -t ELSE t
    IN  (IF t < 0 THEN <<"-">> ELSE <<>>) \o NatStr(a \div 10) \o <<".">> \o NatStr(a % 10)

send_two_floats(d, a, b) == Write(d, FloatStr(a) \o <<" ">> \o FloatStr(b) \o <<"\n">>)

\* sys.stdout.write("\n"), the success response that carries no value.
send_empty(d) == Write(d, <<"\n">>)

(***************************************************************************)
(* Digital and analog access                                               *)
(***************************************************************************)

\* Variant: the mode token is checked before the pin is looked up.
pinMode_mode_first(d, pin_no, mode) ==
    LET m == lower(mode)
    IN  IF m \notin {<<"i","n">>, <<"i","n","p","u","t">>,
                     <<"o","u","t">>, <<"o","u","t","p","u","t">>}
        THEN Raise(d, "ValueError")
        ELSE IF pin_no \in ANALOG_PINS THEN Ok(d, 0)
        ELSE IF pin_no \notin DIGITAL_PINS THEN Raise(d, "KeyError")
        ELSE IF m \in {<<"i","n">>, <<"i","n","p","u","t">>}
             THEN Ok(PinInitMode(d, pin_no, "IN"), 0)
        ELSE Ok(PinInitMode(d, pin_no, "OUT"), 0)

pinMode(d, pin_no, mode) ==
    LET m == lower(mode)
    IN  IF pin_no \in ANALOG_PINS THEN Ok(d, 0)
        ELSE IF pin_no \notin DIGITAL_PINS THEN Raise(d, "KeyError")
        ELSE IF m \in {<<"i","n">>, <<"i","n","p","u","t">>}
             THEN Ok(PinInitMode(d, pin_no, "IN"), 0)
        ELSE IF m \in {<<"o","u","t">>, <<"o","u","t","p","u","t">>}
             THEN Ok(PinInitMode(d, pin_no, "OUT"), 0)
        ELSE Raise(d, "ValueError")

digitalWrite(d, pin_no, value, hw) ==
    LET token == lower(value)
    IN  IF pin_no \notin DIGITAL_PINS THEN Raise(d, "KeyError")
        ELSE IF token \notin {<<"h","i","g","h">>, <<"l","o","w">>}
             THEN Raise(d, "ValueError")
        ELSE LET v == IF token = <<"h","i","g","h">> THEN 1 ELSE 0
             IN  IF hw.initOk THEN Ok(PinInitOut(d, pin_no, v), 0)
                 ELSE Ok(PinSet(d, pin_no, v), 0)

digitalRead(d, pin_no, hw) ==
    IF pin_no \notin DIGITAL_PINS THEN Raise(d, "KeyError")
    ELSE LET d1 == IF hw.initOk THEN PinInitMode(d, pin_no, "IN") ELSE d
             v  == PinGet(d1, pin_no, hw)
         IN  Ok(Log(d1, "Pin.value", pin_no, <<>>), IF v # 0 THEN 1 ELSE 0)

analogRead(d, pin_no, hw) ==
    IF pin_no \notin ANALOG_PINS THEN Raise(d, "KeyError")
    ELSE Ok(Log(d, "ADC.read_u16", pin_no, <<>>), hw.adc)

\* Variant: a new PWM channel is made on every analogWrite.
GetPwm_uncached(d, pin_no) ==
    LET d1 == Log(d, "PWM", pin_no, <<>>)
        d2 == Log(d1, "PWM.freq", pin_no, <<1000>>)
    IN  [d2 EXCEPT !.pwm_made[pin_no] = @ + 1,
                   !.pwm = Put(@, pin_no, [id |-> d.pwm_made[pin_no] + 1, freq |-> 1000,
                                           freq_calls |-> 1, duty |-> 0])]

\* The lookup or creation of the pin's PWM channel in analogWrite.
GetPwm(d, pin_no) ==
    IF pin_no \in DOMAIN d.pwm THEN d
    ELSE LET d1 == Log(d, "PWM", pin_no, <<>>)
             d2 == Log(d1, "PWM.freq", pin_no, <<1000>>)
         IN  [d2 EXCEPT !.pwm_made[pin_no] = @ + 1,
                        !.pwm = Put(@, pin_no, [id |-> d.pwm_made[pin_no] + 1, freq |-> 1000,
                                                freq_calls |-> 1, duty |-> 0])]

\* Variant: the duty is set on every PWM channel made so far.
analogWrite_every_channel(d, pin_no, value) ==
    IF pin_no \notin DIGITAL_PINS THEN Raise(d, "KeyError")
    ELSE LET d1   == GetPwm(d, pin_no)
             v0   == IF value < 0 THEN 0 ELSE value
             v    == IF v0 > 255 THEN 255 ELSE v0
             duty == v * 257
         IN  Ok(Log([d1 EXCEPT !.pwm = [q \in DOMAIN @ |-> [@[q] EXCEPT !.duty = duty]]],
                    "PWM.duty_u16", pin_no, <<duty>>), 0)

\* Variant: the value is clamped from below only.
analogWrite_no_upper_clamp(d, pin_no, value) ==
    IF pin_no \notin DIGITAL_PINS THEN Raise(d, "KeyError")
    ELSE LET d1   == GetPwm(d, pin_no)
             v    == IF value < 0 THEN 0 ELSE value
             duty == v * 257
         IN  Ok(Log([d1 EXCEPT !.pwm[pin_no].duty = duty],
                    "PWM.duty_u16", pin_no, <<duty>>), 0)

analogWrite(d, pin_no, value) ==
    IF pin_no \notin DIGITAL_PINS THEN Raise(d, "KeyError")
    ELSE LET d1   == GetPwm(d, pin_no)
             v0   == IF value < 0 THEN 0 ELSE value
             v    == IF v0 > 255 THEN 255 ELSE v0
             duty == v * 257
         IN  Ok(Log([d1 EXCEPT !.pwm[pin_no].duty = duty],
                    "PWM.duty_u16", pin_no, <<duty>>), 0)

(***************************************************************************)
(* Ranging adapter                                                         *)
(***************************************************************************)

\* hw.pulse is what time_pulse_us does: it raises, or it returns a duration
\* in microseconds (negative values are its in-band timeout codes).
\* int(duration / 58.0 + 0.5) for duration > 0 is floor((2*duration + 58) / 116).
\* Variant: the pin is not switched to input before the measurement.
ultrasonicRead_measure_as_output(d, pin_no, hw) ==
    IF pin_no \notin DIGITAL_PINS THEN Raise(d, "KeyError")
    ELSE LET d1 == PinInitMode(d, pin_no, "OUT")
             d2 == PinSet(d1, pin_no, 0)
             d3 == PinSet(d2, pin_no, 1)
             d4 == PinSet(d3, pin_no, 0)
             d6 == Log(d4, "time_pulse_us", pin_no, <<1, 30000>>)
         IN  IF hw.pulse.raises THEN Raise(d6, "RuntimeError")
             ELSE IF hw.pulse.us <= 0 THEN Raise(d6, "RuntimeError")
             ELSE Ok(d6, (2 * hw.pulse.us + 58) \div 116)

\* Variant: the distance is cut to an integer without adding the half.
ultrasonicRead_truncating(d, pin_no, hw) ==
    IF pin_no \notin DIGITAL_PINS THEN Raise(d, "KeyError")
    ELSE LET d1 == PinInitMode(d, pin_no, "OUT")
             d2 == PinSet(d1, pin_no, 0)
             d3 == PinSet(d2, pin_no, 1)
             d4 == PinSet(d3, pin_no, 0)
             d5 == PinInitMode(d4, pin_no, "IN")
             d6 == Log(d5, "time_pulse_us", pin_no, <<1, 30000>>)
         IN  IF hw.pulse.raises THEN Raise(d6, "RuntimeError")
             ELSE IF hw.pulse.us <= 0 THEN Raise(d6, "RuntimeError")
             ELSE Ok(d6, hw.pulse.us \div 58)

ultrasonicRead(d, pin_no, hw) ==
    IF pin_no \notin DIGITAL_PINS THEN Raise(d, "KeyError")
    ELSE LET d1 == PinInitMode(d, pin_no, "OUT")
             d2 == PinSet(d1, pin_no, 0)
             d3 == PinSet(d2, pin_no, 1)
             d4 == PinSet(d3, pin_no, 0)
             d5 == PinInitMode(d4, pin_no, "IN")
             d6 == Log(d5, "time_pulse_us", pin_no, <<1, 30000>>)
         IN  IF hw.pulse.raises THEN Raise(d6, "RuntimeError")
             ELSE IF hw.pulse.us <= 0 THEN Raise(d6, "RuntimeError")
             ELSE Ok(d6, (2 * hw.pulse.us + 58) \div 116)

(***************************************************************************)
(* Display adapter                                                         *)
(***************************************************************************)

\* Variant: the cache is not consulted and a handle is made on every call.
_get_lcd_uncached(d, key) ==
    LET k == lower(key)
    IN  IF ~d.lcd_driver.present THEN Raise(d, "RuntimeError")
        ELSE IF k \notin I2C_BUSES THEN Raise(d, "KeyError")
        ELSE LET lcd == [bus |-> k, id |-> d.lcd_made[k] + 1]
                 d1  == Log(d, "LCD1602", k, <<2, 16>>)
             IN  Ok([d1 EXCEPT !.lcd_made[k] = @ + 1,
                               !.lcd_cache = Put(@, k, lcd)], lcd)

_get_lcd(d, key) ==
    LET k == lower(key)
    IN  IF k \in DOMAIN d.lcd_cache THEN Ok(d, d.lcd_cache[k])
        ELSE IF ~d.lcd_driver.present THEN Raise(d, "RuntimeError")
        ELSE IF k \notin I2C_BUSES THEN Raise(d, "KeyError")
        ELSE LET lcd == [bus |-> k, id |-> d.lcd_made[k] + 1]
                 d1  == Log(d, "LCD1602", k, <<2, 16>>)
             IN  Ok([d1 EXCEPT !.lcd_made[k] = @ + 1,
                               !.lcd_cache = Put(@, k, lcd)], lcd)

\* lcd.clear(): every cell blank, cursor at the first cell of line 1.
LcdClear(d, lcd) ==
    Log([d EXCEPT !.lcd_hw[lcd.bus].rows = <<BlankRow, BlankRow>>,
                  !.lcd_hw[lcd.bus].cur = <<0, 0>>], "lcd.clear", lcd, <<>>)

\* lcd.home()
LcdHome(d, lcd) ==
    Log([d EXCEPT !.lcd_hw[lcd.bus].cur = <<0, 0>>], "lcd.home", lcd, <<>>)

\* lcd.setCursor(col, row)
LcdSetCursor(d, lcd, col, row) ==
    Log([d EXCEPT !.lcd_hw[lcd.bus].cur = <<col, row>>], "lcd.setCursor", lcd, <<col, row>>)

\* lcd.print(text): the characters go to the cells from the cursor on; the
\* cells right of column 16 are not visible.
LcdPrint(d, lcd, text) ==
    LET col == d.lcd_hw[lcd.bus].cur[1]
        row == d.lcd_hw[lcd.bus].cur[2]
        old == d.lcd_hw[lcd.bus].rows[row + 1]
        new == [i \in 1..16 |-> IF i > col /\ i <= col + Len(text)
                                THEN text[i - col] ELSE old[i]]
    IN  Log([d EXCEPT !.lcd_hw[lcd.bus].rows[row + 1] = new,
                      !.lcd_hw[lcd.bus].cur = <<col + Len(text), row>>],
            "lcd.print", lcd, text)

\* Variant: a failure of lcd.clear() ends the call.
write_lcd_clear_fatal(d, name, raw_text, hw) ==
    LET g == _get_lcd(d, name)
    IN  IF g.exc # "" THEN Raise(g.d, g.exc)
        ELSE
        LET lcd   == g.ret
            text0 == strip(raw_text)
            text1 == replace(replace(text0, "\r", " "), "\n", " ")
            text  == slice(text1, 0, 32)
            line1 == slice(text, 0, 16)
            line2 == slice(text, 16, 32)
            d1    == IF hw.clearOk THEN LcdClear(g.d, lcd)
                     ELSE Log(g.d, "lcd.clear", lcd, <<"raised">>)
            d2    == LcdHome(d1, lcd)
            d3    == LcdPrint(d2, lcd, line1)
        IN  IF ~hw.clearOk THEN Raise(d1, "OSError")
            ELSE IF line2 # <<>>
            THEN Ok(LcdPrint(LcdSetCursor(d3, lcd, 0, 1), lcd, line2), 0)
            ELSE Ok(d3, 0)

\* Variant: line 2 takes everything from the 17th character on.
write_lcd_untruncated(d, name, raw_text, hw) ==
    LET g == _get_lcd(d, name)
    IN  IF g.exc # "" THEN Raise(g.d, g.exc)
        ELSE
        LET lcd   == g.ret
            text0 == strip(raw_text)
            text  == replace(replace(text0, "\r", " "), "\n", " ")
            line1 == slice(text, 0, 16)
            line2 == slice(text, 16, Len(text))
            d1    == IF hw.clearOk THEN LcdClear(g.d, lcd)
                     ELSE Log(g.d, "lcd.clear", lcd, <<"raised">>)
            d2    == LcdHome(d1, lcd)
            d3    == LcdPrint(d2, lcd, line1)
        IN  IF line2 # <<>>
            THEN Ok(LcdPrint(LcdSetCursor(d3, lcd, 0, 1), lcd, line2), 0)
            ELSE Ok(d3, 0)

write_lcd(d, name, raw_text, hw) ==
    LET g == _get_lcd(d, name)
    IN  IF g.exc # "" THEN Raise(g.d, g.exc)
        ELSE
        LET lcd   == g.ret
            text0 == strip(raw_text)
            text1 == replace(replace(text0, "\r", " "), "\n", " ")
            text  == slice(text1, 0, 32)
            line1 == slice(text, 0, 16)
            line2 == slice(text, 16, 32)
            d1    == IF hw.clearOk THEN LcdClear(g.d, lcd)
                     ELSE Log(g.d, "lcd.clear", lcd, <<"raised">>)
            d2    == LcdHome(d1, lcd)
            d3    == LcdPrint(d2, lcd, line1)
        IN  IF line2 # <<>>
            THEN Ok(LcdPrint(LcdSetCursor(d3, lcd, 0, 1), lcd, line2), 0)
            ELSE Ok(d3, 0)

setText(d, bus, text, hw) ==
    LET bus_token == lower(bus)
    IN  IF bus_token \in {<<"0">>, <<"i","2","c","0">>}
        THEN write_lcd(d, <<"i","2","c","0">>, text, hw)
        ELSE IF bus_token \in {<<"1">>, <<"i","2","c","1">>}
        THEN write_lcd(d, <<"i","2","c","1">>, text, hw)
        ELSE Raise(d, "ValueError")

setRGB(d, bus, r, g, b) ==
    LET bus_token == lower(bus)
        key == IF bus_token \in {<<"0">>, <<"i","2","c","0">>} THEN <<"i","2","c","0">>
               ELSE IF bus_token \in {<<"1">>, <<"i","2","c","1">>} THEN <<"i","2","c","1">>
               ELSE <<>>
    IN  IF key = <<>> THEN Raise(d, "ValueError")
        ELSE LET h == _get_lcd(d, key)
             IN  IF h.exc # "" THEN Raise(h.d, h.exc)
                 ELSE IF d.lcd_driver.has_set_rgb
                 THEN Ok(Log([h.d EXCEPT !.lcd_hw[h.ret.bus].rgb = <<r, g, b>>],
                             "lcd.set_rgb", h.ret, <<r, g, b>>), 0)
                 ELSE Ok(h.d, 0)

(***************************************************************************)
(* Sensor adapter                                                          *)
(***************************************************************************)

\* Variant: a successful measurement is stored only when the key has no
\* stored pair yet.
dhtRead_keep_first(d, pin_no, module_type, hw) ==
    IF ~ValidGpio(pin_no) THEN Raise(d, "ValueError")
    ELSE
    LET d1  == IF pin_no \in DIGITAL_PINS THEN PinInitMode(d, pin_no, "IN")
               ELSE Log(d, "Pin", pin_no, <<"IN">>)
        key == <<pin_no, module_type>>
    IN  IF module_type \notin {0, 1} THEN Raise(d1, "ValueError")
        ELSE LET d2 == Log(d1, "dht.measure", pin_no, <<module_type>>)
             IN  IF key \in DOMAIN d2.dht_cache THEN Ok(d2, d2.dht_cache[key])
                 ELSE IF hw.dht.ok
                 THEN LET d3 == [d2 EXCEPT !.dht_cache =
                                             Put(@, key, <<hw.dht.temp, hw.dht.hum>>)]
                      IN  Ok(d3, d3.dht_cache[key])
                 ELSE Raise(d2, "OSError")

\* Variant: a failed measurement falls back to a pair stored for the same
\* pin under any module type.
dhtRead_pin_fallback(d, pin_no, module_type, hw) ==
    IF ~ValidGpio(pin_no) THEN Raise(d, "ValueError")
    ELSE
    LET d1  == IF pin_no \in DIGITAL_PINS THEN PinInitMode(d, pin_no, "IN")
               ELSE Log(d, "Pin", pin_no, <<"IN">>)
        key == <<pin_no, module_type>>
    IN  IF module_type \notin {0, 1} THEN Raise(d1, "ValueError")
        ELSE LET d2 == Log(d1, "dht.measure", pin_no, <<module_type>>)
             IN  IF hw.dht.ok
                 THEN LET d3 == [d2 EXCEPT !.dht_cache =
                                             Put(@, key, <<hw.dht.temp, hw.dht.hum>>)]
                      IN  Ok(d3, d3.dht_cache[key])
                 ELSE IF \E k \in DOMAIN d2.dht_cache : k[1] = pin_no
                 THEN Ok(d2, d2.dht_cache[CHOOSE k \in DOMAIN d2.dht_cache : k[1] = pin_no])
                 ELSE Raise(d2, "OSError")

\* hw.dht is the outcome of sensor.measure() and the two getters:
\* [ok |-> FALSE] when one of them raises, else the measured pair.
dhtRead(d, pin_no, module_type, hw) ==
    IF ~ValidGpio(pin_no) THEN Raise(d, "ValueError")
    ELSE
    LET d1  == IF pin_no \in DIGITAL_PINS THEN PinInitMode(d, pin_no, "IN")
               ELSE Log(d, "Pin", pin_no, <<"IN">>)
        key == <<pin_no, module_type>>
    IN  IF module_type \notin {0, 1} THEN Raise(d1, "ValueError")
        ELSE LET d2 == Log(d1, "dht.measure", pin_no, <<module_type>>)
             IN  IF hw.dht.ok
                 THEN LET d3 == [d2 EXCEPT !.dht_cache =
                                             Put(@, key, <<hw.dht.temp, hw.dht.hum>>)]
                      IN  Ok(d3, d3.dht_cache[key])
                 ELSE IF key \in DOMAIN d2.dht_cache THEN Ok(d2, d2.dht_cache[key])
                 ELSE Raise(d2, "OSError")

(***************************************************************************)
(* Command dispatcher                                                      *)
(*                                                                         *)
(* Each branch of handle_command is one operator.  A branch returns        *)
(* [d, exc]: the device context after it and the exception that leaves     *)
(* handle_command ("" when it returns normally).                           *)
(***************************************************************************)

Done(d) == [d |-> d, exc |-> ""]

\* try: <adapter call r>; <success response> / except Exception: send_error()
\* Variant: the except clause swallows the failure without send_error().
Respond_no_except(r, success) ==
    IF r.exc # "" THEN Done([r.d EXCEPT !.caught = r.exc]) ELSE Done(success)

Respond(r, success) ==
    IF r.exc # "" THEN Done(send_error([r.d EXCEPT !.caught = r.exc])) ELSE Done(success)

cmd_pinmode(d, args_str, hw) ==
    CallByValue(LAMBDA parts :
        IF Len(parts) # 2 THEN Done(send_error(d))
        ELSE CallByValue(LAMBDA pin_no :
                 IF ~pin_no.ok THEN Done(send_error(d))
                 ELSE CallByValue(LAMBDA r : Respond(r, send_empty(r.d)),
                                  pinMode(d, pin_no.val, parts[2])),
                 _parse_int(parts[1])),
        _split_args(args_str, -1))

cmd_digitalwrite(d, args_str, hw) ==
    CallByValue(LAMBDA parts :
        IF Len(parts) # 2 THEN Done(send_error(d))
        ELSE CallByValue(LAMBDA pin_no :
                 IF ~pin_no.ok THEN Done(send_error(d))
                 ELSE CallByValue(LAMBDA r : Respond(r, send_empty(r.d)),
                                  digitalWrite(d, pin_no.val, parts[2], hw)),
                 _parse_int(parts[1])),
        _split_args(args_str, -1))

cmd_digitalread(d, args_str, hw) ==
    CallByValue(LAMBDA parts :
        IF Len(parts) # 1 THEN Done(send_error(d))
        ELSE CallByValue(LAMBDA pin_no :
                 IF ~pin_no.ok THEN Done(send_error(d))
                 ELSE CallByValue(LAMBDA r : Respond(r, send_number(r.d, r.ret)),
                                  digitalRead(d, pin_no.val, hw)),
                 _parse_int(parts[1])),
        _split_args(args_str, -1))

cmd_analogread(d, args_str, hw) ==
    CallByValue(LAMBDA parts :
        IF Len(parts) # 1 THEN Done(send_error(d))
        ELSE CallByValue(LAMBDA pin_no :
                 IF ~pin_no.ok THEN Done(send_error(d))
                 ELSE CallByValue(LAMBDA r : Respond(r, send_number(r.d, r.ret)),
                                  analogRead(d, pin_no.val, hw)),
                 _parse_int(parts[1])),
        _split_args(args_str, -1))

cmd_analogwrite(d, args_str, hw) ==
    CallByValue(LAMBDA parts :
        IF Len(parts) # 2 THEN Done(send_error(d))
        ELSE CallByValue(LAMBDA pin_no :
                 CallByValue(LAMBDA value :
                     IF ~pin_no.ok \/ ~value.ok THEN Done(send_error(d))
                     ELSE CallByValue(LAMBDA r : Respond(r, send_empty(r.d)),
                                      analogWrite(d, pin_no.val, value.val)),
                     _parse_int(parts[2])),
                 _parse_int(parts[1])),
        _split_args(args_str, -1))

\* Variant: the adapter call is not wrapped in try/except.
cmd_ultrasonicread_unguarded(d, args_str, hw) ==
    CallByValue(LAMBDA parts :
        IF Len(parts) # 1 THEN Done(send_error(d))
        ELSE CallByValue(LAMBDA pin_no :
                 IF ~pin_no.ok THEN Done(send_error(d))
                 ELSE CallByValue(LAMBDA r :
                          IF r.exc # "" THEN [d |-> r.d, exc |-> r.exc]
                          ELSE Done(send_number(r.d, r.ret)),
                          ultrasonicRead(d, pin_no.val, hw)),
                 _parse_int(parts[1])),
        _split_args(args_str, -1))

cmd_ultrasonicread(d, args_str, hw) ==
    CallByValue(LAMBDA parts :
        IF Len(parts) # 1 THEN Done(send_error(d))
        ELSE CallByValue(LAMBDA pin_no :
                 IF ~pin_no.ok THEN Done(send_error(d))
                 ELSE CallByValue(LAMBDA r : Respond(r, send_number(r.d, r.ret)),
                                  ultrasonicRead(d, pin_no.val, hw)),
                 _parse_int(parts[1])),
        _split_args(args_str, -1))

\* Variant: setText splits its arguments on every comma.
cmd_settext_split_all(d, args_str, hw) ==
    CallByValue(LAMBDA parts :
        IF Len(parts) # 2 THEN Done(send_error(d))
        ELSE CallByValue(LAMBDA bus_token :
                 IF bus_token \notin {<<"0">>, <<"i","2","c","0">>,
                                      <<"1">>, <<"i","2","c","1">>}
                 THEN Done(send_error(d))
                 ELSE CallByValue(LAMBDA r : Respond(r, send_empty(r.d)),
                                  setText(d, bus_token, parts[2], hw)),
                 lower(parts[1])),
        _split_args(args_str, -1))

cmd_settext(d, args_str, hw) ==
    CallByValue(LAMBDA parts :
        IF Len(parts) # 2 THEN Done(send_error(d))
        ELSE CallByValue(LAMBDA bus_token :
                 IF bus_token \notin {<<"0">>, <<"i","2","c","0">>,
                                      <<"1">>, <<"i","2","c","1">>}
                 THEN Done(send_error(d))
                 ELSE CallByValue(LAMBDA r : Respond(r, send_empty(r.d)),
                                  setText(d, bus_token, parts[2], hw)),
                 lower(parts[1])),
        _split_args(args_str, 1))

\* Variant: the colour is sent to the display before the three numbers are
\* checked, a number that does not parse counting as 0.
cmd_setrgb_late_check(d, args_str, hw) ==
    CallByValue(LAMBDA parts :
        IF Len(parts) # 4 THEN Done(send_error(d))
        ELSE CallByValue(LAMBDA bus_token :
                 IF bus_token \notin {<<"0">>, <<"i","2","c","0">>,
                                      <<"1">>, <<"i","2","c","1">>}
                 THEN Done(send_error(d))
                 ELSE CallByValue(LAMBDA rgb :
                          CallByValue(LAMBDA x :
                              IF ~rgb[1].ok \/ ~rgb[2].ok \/ ~rgb[3].ok
                              THEN Done(send_error(x.d))
                              ELSE Respond(x, send_empty(x.d)),
                              setRGB(d, bus_token,
                                     IF rgb[1].ok THEN rgb[1].val ELSE 0,
                                     IF rgb[2].ok THEN rgb[2].val ELSE 0,
                                     IF rgb[3].ok THEN rgb[3].val ELSE 0)),
                          <<_parse_int(parts[2]), _parse_int(parts[3]),
                            _parse_int(parts[4])>>),
                 lower(parts[1])),
        _split_args(args_str, -1))

cmd_setrgb(d, args_str, hw) ==
    CallByValue(LAMBDA parts :
        IF Len(parts) # 4 THEN Done(send_error(d))
        ELSE CallByValue(LAMBDA bus_token :
                 IF bus_token \notin {<<"0">>, <<"i","2","c","0">>,
                                      <<"1">>, <<"i","2","c","1">>}
                 THEN Done(send_error(d))
                 ELSE CallByValue(LAMBDA rgb :
                          IF ~rgb[1].ok \/ ~rgb[2].ok \/ ~rgb[3].ok
                          THEN Done(send_error(d))
                          ELSE CallByValue(LAMBDA x : Respond(x, send_empty(x.d)),
                                           setRGB(d, bus_token, rgb[1].val,
                                                  rgb[2].val, rgb[3].val)),
                          <<_parse_int(parts[2]), _parse_int(parts[3]),
                            _parse_int(parts[4])>>),
                 lower(parts[1])),
        _split_args(args_str, -1))

cmd_dhtread(d, args_str, hw) ==
    CallByValue(LAMBDA parts :
        IF Len(parts) # 2 THEN Done(send_error(d))
        ELSE CallByValue(LAMBDA pin_no :
                 CallByValue(LAMBDA module_type :
                     IF ~pin_no.ok \/ ~module_type.ok THEN Done(send_error(d))
                     ELSE CallByValue(LAMBDA r :
                              Respond(r, send_two_floats(r.d, r.ret[1], r.ret[2])),
                              dhtRead(d, pin_no.val, module_type.val, hw)),
                     _parse_int(parts[2])),
                 _parse_int(parts[1])),
        _split_args(args_str, -1))

\* handle_command from "cmd = name.lower()" on: the chain of command branches.
dispatch(d, c, hw) ==
    CallByValue(LAMBDA cmd :
        IF cmd = <<"p","i","n","m","o","d","e">>
             THEN cmd_pinmode(d, c.args_str, hw)
        ELSE IF cmd = <<"d","i","g","i","t","a","l","w","r","i","t","e">>
             THEN cmd_digitalwrite(d, c.args_str, hw)
        ELSE IF cmd = <<"d","i","g","i","t","a","l","r","e","a","d">>
             THEN cmd_digitalread(d, c.args_str, hw)
        ELSE IF cmd = <<"a","n","a","l","o","g","r","e","a","d">>
             THEN cmd_analogread(d, c.args_str, hw)
        ELSE IF cmd = <<"a","n","a","l","o","g","w","r","i","t","e">>
             THEN cmd_analogwrite(d, c.args_str, hw)
        ELSE IF cmd = <<"u","l","t","r","a","s","o","n","i","c","r","e","a","d">>
             THEN cmd_ultrasonicread(d, c.args_str, hw)
        ELSE IF cmd = <<"s","e","t","t","e","x","t">>
             THEN cmd_settext(d, c.args_str, hw)
        ELSE IF cmd = <<"s","e","t","r","g","b">>
             THEN cmd_setrgb(d, c.args_str, hw)
        ELSE IF cmd = <<"d","h","t","r","e","a","d">>
             THEN cmd_dhtread(d, c.args_str, hw)
        ELSE Done(send_error(d)),
        lower(c.name))

\* Variant: a line that is no call returns without a response.
handle_command_silent(d, line, hw) ==
    CallByValue(LAMBDA c : IF ~c.ok THEN Done(d) ELSE dispatch(d, c, hw),
                _parse_call(line))

handle_command(d, line, hw) ==
    CallByValue(LAMBDA c :
        IF ~c.ok THEN Done(send_error(d))
        ELSE IF c.name = <<>> THEN Done(send_error(d))
        ELSE dispatch(d, c, hw),
        _parse_call(line))

\* stdin.readline() returns "" at end of input; otherwise the line is
\* stripped.  [ok |-> FALSE] stands for None.
read_line(raw) ==
    IF Len(raw) = 0 THEN [ok |-> FALSE] ELSE [ok |-> TRUE, text |-> strip(raw)]

(***************************************************************************)
(* The host: the lines it may send                                         *)
(***************************************************************************)

RECURSIVE Join(_)
Join(args) ==
    IF Len(args) = 0 THEN <<>>
    ELSE IF Len(args) = 1 THEN args[1]
    ELSE args[1] \o <<",">> \o Join(Tail(args))

\* The text name(arg1,arg2,...) as the host spells it.
Call(name, args) == name \o <<"(">> \o Join(args) \o <<")">>

W_pinMode == <<"p","i","n","M","o","d","e">>

W_digitalWrite == <<"d","i","g","i","t","a","l","W","r","i","t","e">>

W_digitalRead == <<"d","i","g","i","t","a","l","R","e","a","d">>

W_analogRead == <<"a","n","a","l","o","g","R","e","a","d">>

W_analogWrite == <<"a","n","a","l","o","g","W","r","i","t","e">>

W_ultrasonicRead == <<"u","l","t","r","a","s","o","n","i","c","R","e","a","d">>

W_setText == <<"s","e","t","T","e","x","t">>

W_setRGB == <<"s","e","t","R","G","B">>

W_dhtRead == <<"d","h","t","R","e","a","d">>

W_OUTPUT == <<"O","U","T","P","U","T">>

W_INPUT == <<"I","N","P","U","T">>

W_HIGH == <<"H","I","G","H">>

W_LOW == <<"L","O","W">>

W_BOGUS == <<"B","O","G","U","S">>

W_foo == <<"f","o","o">>

W_unknownCmd == <<"u","n","k","n","o","w","n","C","m","d">>

W_hi == <<"h","i">>

W_x == <<"x">>

\* Lines that are no call at all.
MalformedLines ==
    { <<>>, <<" ", "\t">>, W_foo, <<"(","1",")">>, W_foo \o <<")","(">>,
      W_pinMode \o <<"(","1","6">> }

\* Calls the dispatcher rejects before any adapter runs.
RejectedLines ==
    { Call(W_pinMode, <<IntStr(16)>>),
      Call(W_unknownCmd, <<IntStr(1)>>),
      Call(W_pinMode, <<W_x, W_OUTPUT>>),
      Call(W_digitalWrite, <<IntStr(16)>>),
      Call(W_digitalWrite, <<W_x, W_HIGH>>),
      Call(W_digitalRead, <<IntStr(16), IntStr(1)>>),
      Call(W_digitalRead, <<W_x>>),
      Call(W_analogRead, <<>>),
      Call(W_analogRead, <<W_x>>),
      Call(W_analogWrite, <<IntStr(16)>>),
      Call(W_analogWrite, <<IntStr(16), W_x>>),
      Call(W_ultrasonicRead, <<>>),
      Call(W_ultrasonicRead, <<W_x>>),
      Call(W_setText, <<IntStr(0)>>),
      Call(W_setText, <<IntStr(2), W_hi>>),
      Call(W_setRGB, <<IntStr(0), IntStr(1), IntStr(2)>>),
      Call(W_setRGB, <<IntStr(0), W_x, IntStr(2), IntStr(3)>>),
      Call(W_setRGB, <<IntStr(9), IntStr(1), IntStr(2), IntStr(3)>>),
      Call(W_dhtRead, <<IntStr(20)>>),
      Call(W_dhtRead, <<IntStr(20), W_x>>) }

\* Calls that reach an adapter, some of which the adapter refuses.
SessionCalls ==
    { Call(W_pinMode, <<IntStr(16), W_OUTPUT>>),
      <<" ">> \o Call(W_pinMode \o <<" ">>, << <<" ">> \o IntStr(16) \o <<" ">>,
                                              <<" ","i","n","p","u","t"," ">> >>) \o <<" ","x","\r">>,
      Call(W_pinMode, <<IntStr(16), W_BOGUS>>),
      Call(W_pinMode, <<IntStr(17), W_OUTPUT>>),
      Call(W_pinMode, <<IntStr(1), W_BOGUS>>),
      Call(W_digitalWrite, <<IntStr(16), W_HIGH>>),
      Call(W_digitalWrite, <<IntStr(16), W_BOGUS>>),
      Call(W_digitalWrite, <<IntStr(0), W_HIGH>>),
      Call(W_digitalRead, <<IntStr(16)>>),
      Call(W_digitalRead, <<IntStr(3)>>),
      Call(W_analogRead, <<IntStr(0)>>),
      Call(W_analogRead, <<IntStr(16)>>),
      Call(W_analogWrite, <<IntStr(16), IntStr(128)>>),
      Call(W_analogWrite, <<IntStr(5), IntStr(1)>>),
      Call(W_ultrasonicRead, <<IntStr(18)>>),
      Call(W_ultrasonicRead, <<IntStr(1)>>),
      Call(W_setText, <<IntStr(0), W_hi>>),
      Call(W_setRGB, <<IntStr(0), IntStr(1), IntStr(2), IntStr(3)>>),
      Call(W_dhtRead, <<IntStr(20), IntStr(0)>>),
      Call(W_dhtRead, <<IntStr(20), IntStr(2)>>),
      Call(W_dhtRead, <<IntStr(99), IntStr(0)>>) }

\* Bound of the model: how far outside 0..255 the analogWrite values reach.
MaxOver == 1

PwmValues == ((0 - MaxOver)..1) \cup {128} \cup (254..(255 + MaxOver)) \cup {500}

\* Bound of the model: the length of the longest display text.
MaxTextLen == 41

MasterText ==
    <<"1","2","3","4","5","6","7","8","9","0","1","2","3","4","5","6",
      "E","X","T","R","A","a","b","c","d","e","f","g","h","i","j","k",
      "l","m","n","o","p","q","r","s","t","u","v","w","x","y","z","!">>

\* Display texts: prefixes of MasterText around the line and screen limits,
\* a text with an embedded carriage return, one with blanks around it and
\* one with commas.
DisplayTexts ==
    {SubSeq(MasterText, 1, n) : n \in {1, 16, 17, 21, 32, 33, 40, MaxTextLen}}
    \cup { <<"a","\r","b">>, <<" ","h","i"," ">>, <<"H","i",","," ","y","o","u",",","2">> }

GpioLines ==
    UNION {{ Call(W_digitalWrite, <<IntStr(p), W_HIGH>>),
             Call(W_digitalWrite, <<IntStr(p), W_LOW>>),
             Call(W_digitalRead, <<IntStr(p)>>),
             Call(W_pinMode, <<IntStr(p), W_INPUT>>),
             Call(W_pinMode, <<IntStr(p), W_OUTPUT>>) } : p \in DIGITAL_PINS}
    \cup { Call(W_digitalWrite, <<IntStr(17), W_HIGH>>),
           Call(W_digitalWrite, <<IntStr(16), W_BOGUS>>),
           Call(W_digitalWrite, <<IntStr(16), <<"h","i","g","h">> >>),
           Call(W_digitalRead, <<IntStr(17)>>),
           Call(W_digitalRead, <<IntStr(0)>>),
           Call(W_pinMode, <<IntStr(0), W_BOGUS>>),
           Call(W_pinMode, <<IntStr(16), W_BOGUS>>),
           Call(W_pinMode, <<IntStr(17), W_OUTPUT>>) }

PwmLines ==
    {Call(W_analogWrite, <<IntStr(p), IntStr(v)>>) : p \in DIGITAL_PINS \cup {17}, v \in PwmValues}

\* The ways a host can spell setText on bus 0 with an empty text: nothing
\* after the comma, blanks after the comma, a pair of quotation marks.
EmptyTextLines ==
    {Call(W_setText, <<IntStr(0), t>>) : t \in { <<>>, <<" ">>, <<"\"", "\"">> }}

LcdLines ==
    {Call(W_setText, <<IntStr(0), t>>) : t \in DisplayTexts}
    \cup EmptyTextLines
    \cup {Call(W_setText, <<b, SubSeq(MasterText, 1, 17)>>) :
             b \in {<<"I","2","C","0">>, <<"1">>, <<"i","2","c","1">>, <<"I","2","c","1">>}}
    \cup { Call(W_setText, <<IntStr(2), W_hi>>),
           Call(W_setText, <<IntStr(0), <<>> >>),
           Call(W_setRGB, <<IntStr(1), IntStr(1), IntStr(2), IntStr(3)>>),
           Call(W_setRGB, <<<<"I","2","c","1">>, IntStr(255), IntStr(0), IntStr(0)>>) }

DhtLines ==
    {Call(W_dhtRead, <<IntStr(p), IntStr(t)>>) : p \in {4, 16}, t \in {0, 1}}
    \cup { Call(W_dhtRead, <<IntStr(16), IntStr(2)>>),
           Call(W_dhtRead, <<IntStr(30), IntStr(0)>>) }

\* One command for each way a command can fail, and two that succeed.
FailureLines ==
    { W_foo,
      Call(W_pinMode, <<IntStr(16)>>),
      Call(W_pinMode, <<IntStr(16), W_BOGUS>>),
      Call(W_digitalRead, <<IntStr(17)>>),
      Call(W_digitalWrite, <<IntStr(16), W_HIGH>>),
      Call(W_ultrasonicRead, <<IntStr(18)>>),
      Call(W_setText, <<IntStr(0), W_hi>>),
      Call(W_dhtRead, <<IntStr(20), IntStr(0)>>) }

\* Display texts with commas in them, and commands with commas to spare.
SplitLines ==
    {Call(W_setText, <<IntStr(0), t>>) :
        t \in { <<"a",",","b">>, <<",","a">>, <<"a",",">>, <<",">>, <<"a",",",",","b">>,
                <<" ","a"," ",","," ","b"," ">>, W_hi }}
    \cup { Call(W_setText, <<<<>>, IntStr(0), W_hi>>),
           Call(W_setText, <<IntStr(0), <<>> >>),
           Call(W_pinMode, <<IntStr(16), <<>>, W_OUTPUT, <<>> >>),
           Call(W_pinMode, <<IntStr(16), <<"O","U","T">>, <<"P","U","T">> >>),
           Call(W_digitalWrite, << <<" ">> \o IntStr(16) \o <<" ">>, <<" ">> \o W_HIGH \o <<" ">>, <<>> >>),
           Call(W_digitalRead, <<IntStr(16), <<" ">> >>),
           Call(W_analogRead, <<IntStr(0), <<>>, <<>> >>),
           Call(W_analogWrite, <<<<>>, IntStr(16), IntStr(1)>>),
           Call(W_analogWrite, <<IntStr(16), IntStr(1), IntStr(2)>>),
           Call(W_setRGB, <<IntStr(0), IntStr(1), <<>>, IntStr(2), IntStr(3)>>),
           Call(W_setRGB, <<IntStr(0), IntStr(1), IntStr(2), IntStr(3), IntStr(4)>>) }

\* Ranging on every digital pin, on pins that are not digital pins, between
\* commands that leave the pin an output or an input, low or high.
RangeLines ==
    {Call(W_ultrasonicRead, <<IntStr(p)>>) : p \in DIGITAL_PINS \cup {0, 17}}
    \cup { Call(W_pinMode, <<IntStr(16), W_INPUT>>),
           Call(W_digitalWrite, <<IntStr(16), W_HIGH>>),
           Call(W_digitalWrite, <<IntStr(18), W_HIGH>>) }

\* The mode tokens the host sends for an analog channel.
ModeTokens == {W_INPUT, W_OUTPUT, W_BOGUS, <<"i","n">>, <<"o","u","t">>, IntStr(1)}

\* pinMode on every analog channel with every mode token, between commands
\* that set a pin, make a PWM channel, store a measurement and write the
\* display.
AnalogLines ==
    {Call(W_pinMode, <<IntStr(a), m>>) : a \in ANALOG_PINS, m \in ModeTokens}
    \cup { Call(W_pinMode, <<IntStr(16), W_INPUT>>),
           Call(W_digitalWrite, <<IntStr(18), W_HIGH>>),
           Call(W_analogWrite, <<IntStr(20), IntStr(128)>>),
           Call(W_dhtRead, <<IntStr(16), IntStr(0)>>),
           Call(W_setText, <<IntStr(0), W_hi>>) }

\* Commands on two pins and on both buses.
IsolationLines ==
    {Call(W_analogWrite, <<IntStr(p), IntStr(p)>>) : p \in {16, 18}}
    \cup { Call(W_digitalWrite, <<IntStr(16), W_HIGH>>),
           Call(W_pinMode, <<IntStr(18), W_INPUT>>),
           Call(W_digitalRead, <<IntStr(16)>>),
           Call(W_ultrasonicRead, <<IntStr(16)>>),
           Call(W_dhtRead, <<IntStr(16), IntStr(0)>>),
           Call(W_dhtRead, <<IntStr(4), IntStr(0)>>),
           Call(W_setText, <<IntStr(0), W_hi>>),
           Call(W_setRGB, <<IntStr(1), IntStr(1), IntStr(2), IntStr(3)>>) }

\* Bound of the model: the length of the longest line of the parser scenario.
MaxLineLen == 4

\* The characters the parser tells apart, and a letter.
ParseAlphabet == {"a", "(", ")", ",", " "}

\* Every line over ParseAlphabet up to the length bound.
ParseLines == UNION {[1..n -> ParseAlphabet] : n \in 0..MaxLineLen}

\* What the host sends in each scenario, without the line terminator.
HostLines(h) ==
    IF h = "session" THEN MalformedLines \cup RejectedLines \cup SessionCalls
    ELSE IF h = "gpio" THEN GpioLines
    ELSE IF h = "pwm" THEN PwmLines
    ELSE IF h = "lcd" THEN LcdLines
    ELSE IF h = "dht" THEN DhtLines
    ELSE IF h = "failures" THEN FailureLines
    ELSE IF h = "parse" THEN ParseLines
    ELSE IF h = "split" THEN SplitLines
    ELSE IF h = "range" THEN RangeLines
    ELSE IF h = "analog" THEN AnalogLines
    ELSE IF h = "isolation" THEN IsolationLines
    ELSE {}

\* What stdin.readline() can return: a terminated line, or "" at end of input.
RawLines(h) == {t \o <<"\n">> : t \in HostLines(h)} \cup {<<>>}

(***************************************************************************)
(* The hardware: what the drivers can answer during one command            *)
(***************************************************************************)

\* Bound of the model: the number of distinct readings a sensor can give.
MaxReadings == 2

\* The i-th reading of a sensor of the given kind, in tenths.
Reading(i, module_type) ==
    [ok |-> TRUE,
     temp |-> 200 + 10 * i + (IF module_type = 1 THEN 3 ELSE 0),
     hum |-> 400 + 10 * i + (IF module_type = 1 THEN 7 ELSE 0)]

DhtOutcomes(module_type) ==
    {[ok |-> FALSE]} \cup {Reading(i, module_type) : i \in 1..MaxReadings}

EchoDurations == {-1, 0, 28, 29, 87, 580}

PulseOutcomes ==
    {[raises |-> TRUE, us |-> 0]} \cup {[raises |-> FALSE, us |-> u] : u \in EchoDurations}

HwDefault ==
    [initOk |-> TRUE, level |-> 0, adc |-> 0, clearOk |-> TRUE,
     pulse |-> [raises |-> FALSE, us |-> 0], dht |-> [ok |-> FALSE]]

\* The outcomes of the driver calls the command on this line can make.
HwChoices(line) ==
    CallByValue(LAMBDA c :
        IF ~c.ok THEN {HwDefault}
        ELSE
        CallByValue(LAMBDA cmd :
            IF cmd = lower(W_digitalRead)
                 THEN {[HwDefault EXCEPT !.initOk = i, !.level = v] :
                          i \in BOOLEAN, v \in {0, 1}}
            ELSE IF cmd = lower(W_digitalWrite)
                 THEN {[HwDefault EXCEPT !.initOk = i] : i \in BOOLEAN}
            ELSE IF cmd = lower(W_analogRead)
                 THEN {[HwDefault EXCEPT !.adc = a] : a \in {0, 513, 65535}}
            ELSE IF cmd = lower(W_ultrasonicRead)
                 THEN {[HwDefault EXCEPT !.pulse = u] : u \in PulseOutcomes}
            ELSE IF cmd = lower(W_setText)
                 THEN {[HwDefault EXCEPT !.clearOk = b] : b \in BOOLEAN}
            ELSE IF cmd = lower(W_dhtRead)
                 THEN CallByValue(LAMBDA parts :
                          {[HwDefault EXCEPT !.dht = m] :
                              m \in DhtOutcomes(IF Len(parts) = 2 /\ _parse_int(parts[2]).ok
                                                THEN _parse_int(parts[2]).val ELSE 0)},
                          _split_args(c.args_str, -1))
            ELSE {HwDefault},
            lower(c.name)),
        _parse_call(line))

(***************************************************************************)
(* The session loop                                                        *)
(***************************************************************************)

VARIABLES
    host,        \* the scenario: which lines the host sends
    pc,          \* main(): "read", "led_on", "dispatch", "led_off", "terminated"
    line,        \* main(): the value read_line() returned last
    exc,         \* the exception in flight out of handle_command, "" if none
    led,         \* LED
    pins,        \* DIGITAL_PINS: direction and output latch of each pin
    pwm,         \* _PWM_CACHE
    pwm_made,    \* PWM objects constructed, per pin
    lcd_driver,  \* LCD1602: [present, has_set_rgb]
    lcd_cache,   \* _LCD_CACHE
    lcd_made,    \* LCD1602 objects constructed, per bus
    lcd_hw,      \* the display modules
    dht_cache,   \* _DHT_CACHE
    stdout,      \* sys.stdout since the last line was read
    calls,       \* driver calls since the last line was read
    caught,      \* the exception handle_command caught since the last line was read
    hw_last,     \* what the drivers answered during the last command
    prev,        \* the line handled before the current one, kept when it was a
                 \* digitalWrite answered with success, else empty
    unanswered   \* lines read minus response lines written

vars == <<host, pc, line, exc, led, pins, pwm, pwm_made, lcd_driver, lcd_cache,
          lcd_made, lcd_hw, dht_cache, stdout, calls, caught, hw_last, prev,
          unanswered>>

Dev ==
    [pins |-> pins, pwm |-> pwm, pwm_made |-> pwm_made, lcd_driver |-> lcd_driver,
     lcd_cache |-> lcd_cache, lcd_made |-> lcd_made, lcd_hw |-> lcd_hw,
     dht_cache |-> dht_cache, stdout |-> stdout, calls |-> calls, caught |-> caught]

\* Whether the text is a call of the command the host spells as name.
IsCallOf(text, name) == _parse_call(text).ok /\ lower(_parse_call(text).name) = lower(name)

\* The number of line terminators in a text.
Newlines(s) == Cardinality({i \in 1..Len(s) : s[i] = "\n"})

\* The ways the import of lcd1602 can end: no driver, a driver whose class
\* has set_rgb, a driver whose class has not.
NoDriver == [present |-> FALSE, has_set_rgb |-> FALSE]

RgbDriver == [present |-> TRUE, has_set_rgb |-> TRUE]

PlainDriver == [present |-> TRUE, has_set_rgb |-> FALSE]

\* The state after the module is imported, for the host scenario h and the
\* display drivers considered.
InitFor(h, drivers) ==
    /\ host = h
    /\ pc = "read"
    /\ line = [ok |-> FALSE]
    /\ exc = ""
    /\ led = 0
    /\ pins = [p \in DIGITAL_PINS |-> [mode |-> "OUT", value |-> 0]]
    /\ pwm = <<>>
    /\ pwm_made = [p \in DIGITAL_PINS |-> 0]
    /\ lcd_driver \in drivers
    /\ lcd_cache = <<>>
    /\ lcd_made = [k \in I2C_BUSES |-> 0]
    /\ lcd_hw = [k \in I2C_BUSES |->
                    [rows |-> <<BlankRow, BlankRow>>, cur |-> <<0, 0>>, rgb |-> <<0, 0, 0>>]]
    /\ dht_cache = <<>>
    /\ stdout = <<>>
    /\ calls = <<>>
    /\ caught = ""
    /\ hw_last = HwDefault
    /\ prev = <<>>
    /\ unanswered = 0

Init == InitFor("session", {NoDriver, RgbDriver})

\* line = read_line(); if line is None: continue
ReadLine ==
    /\ pc = "read"
    /\ \E raw \in RawLines(host) :
         /\ line' = read_line(raw)
         /\ pc' = IF line'.ok THEN "led_on" ELSE "read"
         /\ unanswered' = IF line'.ok THEN unanswered + 1 ELSE unanswered
    /\ stdout' = <<>>
    /\ calls' = <<>>
    /\ caught' = ""
    /\ hw_last' = HwDefault
    /\ UNCHANGED <<host, exc, led, pins, pwm, pwm_made, lcd_driver, lcd_cache,
                   lcd_made, lcd_hw, dht_cache, prev>>

\* LED.value(1)
LedOn ==
    /\ pc = "led_on"
    /\ led' = 1
    /\ pc' = "dispatch"
    /\ UNCHANGED <<host, line, exc, pins, pwm, pwm_made, lcd_driver, lcd_cache,
                   lcd_made, lcd_hw, dht_cache, stdout, calls, caught, hw_last, prev,
                   unanswered>>

\* handle_command(line)
HandleCommand ==
    /\ pc = "dispatch"
    /\ \E hw \in HwChoices(line.text) :
         \E r \in {handle_command(Dev, line.text, hw)} :
             /\ pins' = r.d.pins
             /\ pwm' = r.d.pwm
             /\ pwm_made' = r.d.pwm_made
             /\ lcd_cache' = r.d.lcd_cache
             /\ lcd_made' = r.d.lcd_made
             /\ lcd_hw' = r.d.lcd_hw
             /\ dht_cache' = r.d.dht_cache
             /\ stdout' = r.d.stdout
             /\ calls' = r.d.calls
             /\ caught' = r.d.caught
             /\ hw_last' = hw
             /\ exc' = r.exc
             /\ unanswered' = unanswered - Newlines(r.d.stdout)
    /\ pc' = "led_off"
    /\ UNCHANGED <<host, line, led, lcd_driver, prev>>

\* Variant: the LED is switched off only after a command that did not raise.
LedOff_unless_raised ==
    /\ pc = "led_off"
    /\ led' = IF caught # "" THEN 1 ELSE 0
    /\ pc' = IF exc # "" THEN "terminated" ELSE "read"
    /\ prev' = IF IsCallOf(line.text, W_digitalWrite) /\ stdout = <<"\n">>
               THEN line.text ELSE <<>>
    /\ UNCHANGED <<host, line, exc, pins, pwm, pwm_made, lcd_driver, lcd_cache,
                   lcd_made, lcd_hw, dht_cache, stdout, calls, caught, hw_last,
                   unanswered>>

\* finally: LED.value(0); an exception then leaves main(), else the loop goes on.
LedOff ==
    /\ pc = "led_off"
    /\ led' = 0
    /\ pc' = IF exc # "" THEN "terminated" ELSE "read"
    /\ prev' = IF IsCallOf(line.text, W_digitalWrite) /\ stdout = <<"\n">>
               THEN line.text ELSE <<>>
    /\ UNCHANGED <<host, line, exc, pins, pwm, pwm_made, lcd_driver, lcd_cache,
                   lcd_made, lcd_hw, dht_cache, stdout, calls, caught, hw_last,
                   unanswered>>

Next == ReadLine \/ LedOn \/ HandleCommand \/ LedOff

\* A host that sends one line of every kind.
Spec == Init /\ [][Next]_vars

\* A host that sends commands that fail in every way, with the steps of
\* main() that do not wait for the host always taken; reading waits for the
\* host and has no fairness.
SpecLive ==
    /\ InitFor("failures", {NoDriver, RgbDriver})
    /\ [][Next]_vars
    /\ WF_vars(LedOn) /\ WF_vars(HandleCommand) /\ WF_vars(LedOff)

\* Hosts that exercise one adapter each.
SpecGpio == InitFor("gpio", {RgbDriver}) /\ [][Next]_vars

SpecPwm == InitFor("pwm", {RgbDriver}) /\ [][Next]_vars

SpecLcd == InitFor("lcd", {NoDriver, RgbDriver, PlainDriver}) /\ [][Next]_vars

SpecDht == InitFor("dht", {RgbDriver}) /\ [][Next]_vars

\* A host that sends commands with commas in the text and commas to spare.
SpecSplit == InitFor("split", {RgbDriver}) /\ [][Next]_vars

\* A host that ranges between commands that set the pins.
SpecRange == InitFor("range", {NoDriver}) /\ [][Next]_vars

\* A host that sets the mode of the analog channels between other commands.
SpecAnalog == InitFor("analog", {RgbDriver}) /\ [][Next]_vars

\* A host that uses two pins and both buses.
SpecIsolation == InitFor("isolation", {RgbDriver}) /\ [][Next]_vars

\* A host that sends every short line over the characters the parser tells apart.
SpecParse == InitFor("parse", {NoDriver}) /\ [][Next]_vars

(***************************************************************************)
(* Properties                                                              *)
(***************************************************************************)

ErrorLine == <<"e","r","r","o","r","\n">>

\* C1: every line read, an empty or malformed one included, is answered
\* with exactly one response line before the next line is read: while a
\* line waits for its answer nothing has been written, once the command is
\* handled exactly one terminated line has been written, and no line is
\* read while another is unanswered.
C1_OneResponsePerLine ==
    /\ unanswered \in {0, 1}
    /\ pc = "read" => unanswered = 0
    /\ pc \in {"led_on", "dispatch"} => line.ok /\ unanswered = 1 /\ stdout = <<>>
    /\ pc = "led_off" =>
          /\ unanswered = 0
          /\ Newlines(stdout) = 1
          /\ stdout[Len(stdout)] = "\n"

\* An empty line has been read and answered.
C1_Witness ==
    pc = "led_off" /\ line.ok /\ line.text = <<>> /\ Newlines(stdout) = 1

\* The command names of the protocol, their argument counts and the
\* positions of their integer arguments.
CommandArity ==
    [c \in {lower(W_pinMode), lower(W_digitalWrite), lower(W_analogWrite),
            lower(W_setText), lower(W_dhtRead)} |-> 2]
    @@ [c \in {lower(W_digitalRead), lower(W_analogRead), lower(W_ultrasonicRead)} |-> 1]
    @@ [c \in {lower(W_setRGB)} |-> 4]

IntegerPositions ==
    [c \in {lower(W_pinMode), lower(W_digitalWrite), lower(W_digitalRead),
            lower(W_analogRead), lower(W_ultrasonicRead)} |-> {1}]
    @@ [c \in {lower(W_analogWrite), lower(W_dhtRead)} |-> {1, 2}]
    @@ [c \in {lower(W_setRGB)} |-> {2, 3, 4}]
    @@ [c \in {lower(W_setText)} |-> {}]

\* The line is malformed, names no command, or has a wrong argument count
\* or a non-integer where an integer is required.
Rejectable(text) ==
    LET c     == _parse_call(text)
        cmd   == lower(c.name)
        parts == _split_args(c.args_str, IF cmd = lower(W_setText) THEN 1 ELSE -1)
    IN  \/ ~c.ok
        \/ cmd \notin DOMAIN CommandArity
        \/ Len(parts) # CommandArity[cmd]
        \/ \E i \in IntegerPositions[cmd] : ~_parse_int(parts[i]).ok

\* C2: a malformed line, an unknown command, a wrong argument count, a
\* non-integer where an integer is required or an adapter that raises is
\* answered with exactly the line "error\n"; so are the four named lines.
C2_ErrorResponse ==
    pc = "led_off" =>
       /\ (Rejectable(line.text) \/ caught # "") => stdout = ErrorLine
       /\ line.text \in MalformedLines \cup RejectedLines => stdout = ErrorLine
       /\ line.text \in { W_foo, Call(W_pinMode, <<IntStr(16)>>),
                          Call(W_pinMode, <<IntStr(16), W_BOGUS>>),
                          Call(W_unknownCmd, <<IntStr(1)>>) } => stdout = ErrorLine

\* pinMode(16,BOGUS) reached the adapter, which raised, and was answered.
C2_Witness ==
    /\ pc = "led_off"
    /\ line.text = Call(W_pinMode, <<IntStr(16), W_BOGUS>>)
    /\ caught = "ValueError"
    /\ stdout = ErrorLine

\* C3: no command is fatal: handle_command never lets an exception out,
\* main() never terminates, and after every command the loop comes back to
\* reading the next line.
C3_NoCommandIsFatal ==
    /\ [](exc = "" /\ pc # "terminated")
    /\ (pc = "dispatch") ~> (pc = "read")

\* The loop is reading again after a command whose adapter raised.
C3_Witness ==
    /\ pc = "read" /\ led = 0
    /\ line.ok /\ line.text = Call(W_ultrasonicRead, <<IntStr(18)>>)
    /\ caught = "RuntimeError" /\ hw_last.pulse.raises

\* The sensor keys the host reads: pin and module type 0 or 1.
DhtKeys == {<<p, t>> : p \in {4, 16}, t \in {0, 1}}

\* The dhtRead command for a key, as the host spells it.
DhtCall(k) == Call(W_dhtRead, <<IntStr(k[1]), IntStr(k[2])>>)

\* The response line that carries a (temperature, humidity) pair.
PairLine(v) == FloatStr(v[1]) \o <<" ">> \o FloatStr(v[2]) \o <<"\n">>

\* The step in which handle_command runs.
CommandStep == pc = "dispatch" /\ pc' = "led_off"

\* C4: for a key with module type 0 or 1, a successful dhtRead stores the
\* measured pair under the key and answers with it; a dhtRead whose
\* measurement fails while the key holds a pair does not fail but answers
\* with exactly that stored pair, which by the first part is the pair of the
\* most recent successful measurement on the key; a failed call, a call on
\* another key and every other step leave the stored pair as it is, and a
\* stored pair is never removed.
C4_CachedFallback ==
    [][ /\ DOMAIN dht_cache \subseteq DOMAIN dht_cache'
        /\ ~CommandStep => dht_cache' = dht_cache
        /\ CommandStep =>
             \A k \in DhtKeys :
                /\ (line.text = DhtCall(k) /\ hw_last'.dht.ok) =>
                      /\ k \in DOMAIN dht_cache'
                      /\ dht_cache'[k] = <<hw_last'.dht.temp, hw_last'.dht.hum>>
                      /\ stdout' = PairLine(<<hw_last'.dht.temp, hw_last'.dht.hum>>)
                /\ (line.text = DhtCall(k) /\ ~hw_last'.dht.ok /\ k \in DOMAIN dht_cache) =>
                      /\ stdout' = PairLine(dht_cache[k])
                      /\ caught' = ""
                /\ (~(line.text = DhtCall(k) /\ hw_last'.dht.ok) /\ k \in DOMAIN dht_cache) =>
                      dht_cache'[k] = dht_cache[k]
      ]_vars

\* dhtRead(16,0) failed to measure after two successes on that key and was
\* answered with the pair of the second one.
C4_Witness ==
    /\ pc = "led_off"
    /\ line.text = DhtCall(<<16, 0>>)
    /\ ~hw_last.dht.ok
    /\ <<16, 0>> \in DOMAIN dht_cache
    /\ dht_cache[<<16, 0>>] = <<Reading(2, 0).temp, Reading(2, 0).hum>>
    /\ stdout = PairLine(<<Reading(2, 0).temp, Reading(2, 0).hum>>)

\* C5: no pair is stored at the start and a key comes to hold a pair only
\* by a successful dhtRead on that very key; a dhtRead whose measurement
\* fails while its key holds no pair is answered with the error response and
\* stores nothing, whatever pairs other pins or the other module type of the
\* same pin hold.
C5_NoFallbackAcrossKeys ==
    /\ DOMAIN dht_cache = {}
    /\ [][ CommandStep =>
             \A k \in DhtKeys :
                /\ (k \in DOMAIN dht_cache' /\ k \notin DOMAIN dht_cache) =>
                      line.text = DhtCall(k) /\ hw_last'.dht.ok
                /\ (line.text = DhtCall(k) /\ ~hw_last'.dht.ok /\ k \notin DOMAIN dht_cache) =>
                      /\ stdout' = ErrorLine
                      /\ caught' = "OSError"
                      /\ dht_cache' = dht_cache
         ]_vars

\* dhtRead(16,1) failed to measure and was answered with the error response
\* while the other module type of pin 16 and module type 1 of pin 4 held pairs.
C5_Witness ==
    /\ pc = "led_off"
    /\ line.text = DhtCall(<<16, 1>>)
    /\ ~hw_last.dht.ok
    /\ <<16, 1>> \notin DOMAIN dht_cache
    /\ <<16, 0>> \in DOMAIN dht_cache
    /\ <<4, 1>> \in DOMAIN dht_cache
    /\ stdout = ErrorLine

\* The response line that carries an integer.
NumberLine(n) == IntStr(n) \o <<"\n">>

\* C6 as the specification states it: a digitalRead(P) that directly
\* follows a successful digitalWrite(P, HIGH) answers 1, and one that directly
\* follows a successful digitalWrite(P, LOW) answers 0.
C6_ReadReturnsWritten ==
    \A p \in DIGITAL_PINS :
        (pc = "led_off" /\ line.text = Call(W_digitalRead, <<IntStr(p)>>)) =>
            /\ prev = Call(W_digitalWrite, <<IntStr(p), W_HIGH>>) => stdout = NumberLine(1)
            /\ prev = Call(W_digitalWrite, <<IntStr(p), W_LOW>>) => stdout = NumberLine(0)

\* min(255, max(0, v))
Clamp(v) == IF v < 0 THEN 0 ELSE IF v > 255 THEN 255 ELSE v

\* The analogWrite command as the host spells it.
PwmCall(p, v) == Call(W_analogWrite, <<IntStr(p), IntStr(v)>>)

\* C7: analogWrite(P, v) on a recognized digital pin succeeds and leaves the
\* pin's PWM duty at 257 * min(255, max(0, v)), a value within 0..65535, with
\* 0 giving 0 and 255 giving 65535; and handling analogWrite(P, v) changes the
\* device and answers exactly as handling analogWrite(P, min(255, max(0, v)))
\* does from the same state.
C7_ClampedDuty ==
    \A p \in DIGITAL_PINS : \A v \in PwmValues :
        (line.ok /\ line.text = PwmCall(p, v)) =>
            /\ pc = "led_off" =>
                  /\ stdout = <<"\n">>
                  /\ caught = ""
                  /\ p \in DOMAIN pwm
                  /\ pwm[p].duty = 257 * Clamp(v)
                  /\ pwm[p].duty \in 0..65535
                  /\ v = 0 => pwm[p].duty = 0
                  /\ v = 255 => pwm[p].duty = 65535
            /\ pc = "dispatch" =>
                  handle_command(Dev, line.text, HwDefault)
                      = handle_command(Dev, PwmCall(p, Clamp(v)), HwDefault)

\* analogWrite(16,500) was answered with success and left the duty of pin 16
\* at full scale.
C7_Witness ==
    /\ pc = "led_off"
    /\ line.text = PwmCall(16, 500)
    /\ stdout = <<"\n">>
    /\ 16 \in DOMAIN pwm
    /\ pwm[16].duty = 65535

\* The driver calls of one kind in a call log.
OpsIn(log, op) == SelectSeq(log, LAMBDA c : c.op = op)

\* C8: only recognized digital pins hold a PWM channel; per pin at most one
\* channel is ever made and it is the one the pin holds, set to 1000 Hz by
\* one freq() call; a channel is made only while handling a successful
\* analogWrite to a pin that holds none, together with its one freq(1000)
\* call; a pin that holds a channel keeps that channel, and later
\* analogWrite commands to it make no channel and call freq() no more.
C8_OneChannelPerPin ==
    /\ [](/\ DOMAIN pwm \subseteq DIGITAL_PINS
          /\ \A p \in DIGITAL_PINS :
                /\ pwm_made[p] <= 1
                /\ p \in DOMAIN pwm <=> pwm_made[p] = 1
                /\ p \in DOMAIN pwm =>
                      pwm[p].id = 1 /\ pwm[p].freq = 1000 /\ pwm[p].freq_calls = 1)
    /\ [][ /\ DOMAIN pwm \subseteq DOMAIN pwm'
           /\ \A p \in DOMAIN pwm : pwm'[p].id = pwm[p].id
           /\ ~CommandStep => pwm' = pwm /\ pwm_made' = pwm_made
           /\ CommandStep =>
                /\ Len(OpsIn(calls', "PWM")) = Len(OpsIn(calls', "PWM.freq"))
                /\ \A p \in DIGITAL_PINS :
                      pwm_made'[p] # pwm_made[p] =>
                         /\ p \notin DOMAIN pwm
                         /\ \E v \in PwmValues : line.text = PwmCall(p, v)
                         /\ stdout' = <<"\n">>
                         /\ OpsIn(calls', "PWM") = <<[op |-> "PWM", id |-> p, arg |-> <<>>]>>
                         /\ OpsIn(calls', "PWM.freq")
                               = <<[op |-> "PWM.freq", id |-> p, arg |-> <<1000>>]>>
                /\ (\A p \in DIGITAL_PINS : pwm_made'[p] = pwm_made[p]) =>
                      OpsIn(calls', "PWM") = <<>> /\ OpsIn(calls', "PWM.freq") = <<>>
         ]_vars

\* A second analogWrite to pin 16 set the duty on the channel the pin
\* already held: no channel was made and freq() was not called.
C8_Witness ==
    /\ pc = "led_off"
    /\ line.text = PwmCall(16, 128)
    /\ stdout = <<"\n">>
    /\ pwm_made[16] = 1
    /\ OpsIn(calls, "PWM") = <<>>
    /\ OpsIn(calls, "PWM.freq") = <<>>
    /\ OpsIn(calls, "PWM.duty_u16") = <<[op |-> "PWM.duty_u16", id |-> 16, arg |-> <<128 * 257>>]>>

\* The bus key a setText or setRGB command addresses: its first argument
\* in lower case, "0" and "1" standing for i2c0 and i2c1; <<>> if none.
AddressedBus(text) ==
    CallByValue(LAMBDA c :
        IF ~c.ok \/ lower(c.name) \notin {lower(W_setText), lower(W_setRGB)} THEN <<>>
        ELSE CallByValue(LAMBDA parts :
                 IF Len(parts) = 0 THEN <<>>
                 ELSE CallByValue(LAMBDA b :
                          IF b = <<"0">> THEN <<"i","2","c","0">>
                          ELSE IF b = <<"1">> THEN <<"i","2","c","1">>
                          ELSE IF b \in I2C_BUSES THEN b
                          ELSE <<>>,
                          lower(parts[1])),
                 _split_args(c.args_str, 1)),
        _parse_call(text))

\* The calls on display handles in a call log.
LcdOps == {"lcd.clear", "lcd.home", "lcd.print", "lcd.setCursor", "lcd.set_rgb"}

\* C9: only i2c0 and i2c1 can hold a display handle; per bus at most one
\* handle is ever made and it is the one the bus holds; a bus that holds a
\* handle keeps that very handle, and a handle is made only while handling a
\* command that addresses a bus holding none; every display call of a
\* command goes to the handle held by the bus the command addresses, whether
\* the bus is given as a number or by name in any letter case; and without
\* the display driver no bus ever holds a handle and every setText and setRGB
\* command is answered with the error response.
C9_HandleMadeOnce ==
    /\ [](/\ DOMAIN lcd_cache \subseteq I2C_BUSES
          /\ \A k \in I2C_BUSES :
                /\ lcd_made[k] <= 1
                /\ k \in DOMAIN lcd_cache <=> lcd_made[k] = 1
                /\ k \in DOMAIN lcd_cache => lcd_cache[k] = [bus |-> k, id |-> 1]
          /\ pc = "led_off" =>
                /\ \A i \in 1..Len(calls) :
                      calls[i].op \in LcdOps =>
                         /\ AddressedBus(line.text) \in DOMAIN lcd_cache
                         /\ calls[i].id = lcd_cache[AddressedBus(line.text)]
                /\ (~lcd_driver.present /\ (IsCallOf(line.text, W_setText)
                                            \/ IsCallOf(line.text, W_setRGB))) =>
                      stdout = ErrorLine
          /\ ~lcd_driver.present => lcd_cache = <<>>)
    /\ [][ /\ DOMAIN lcd_cache \subseteq DOMAIN lcd_cache'
           /\ \A k \in DOMAIN lcd_cache : lcd_cache'[k] = lcd_cache[k]
           /\ ~CommandStep => lcd_cache' = lcd_cache /\ lcd_made' = lcd_made
           /\ CommandStep =>
                /\ \A k \in I2C_BUSES :
                      lcd_made'[k] # lcd_made[k] =>
                         /\ k \notin DOMAIN lcd_cache
                         /\ AddressedBus(line.text) = k
                         /\ OpsIn(calls', "LCD1602")
                               = <<[op |-> "LCD1602", id |-> k, arg |-> <<2, 16>>]>>
                /\ (\A k \in I2C_BUSES : lcd_made'[k] = lcd_made[k]) =>
                      OpsIn(calls', "LCD1602") = <<>>
         ]_vars

\* A setText that names the bus I2C0 wrote through the handle an earlier
\* command had made for i2c0: no handle was made for it.
C9_Witness ==
    /\ pc = "led_off"
    /\ line.text = Call(W_setText, <<<<"I","2","C","0">>, SubSeq(MasterText, 1, 17)>>)
    /\ stdout = <<"\n">>
    /\ lcd_made[<<"i","2","c","0">>] = 1
    /\ OpsIn(calls, "LCD1602") = <<>>
    /\ Len(OpsIn(calls, "lcd.print")) = 2
    /\ \A i \in 1..Len(calls) : calls[i].id = [bus |-> <<"i","2","c","0">>, id |-> 1]

\* The first n characters of a text.
FirstChars(t, n) == SubSeq(t, 1, IF Len(t) < n THEN Len(t) ELSE n)

\* A text trimmed, with each carriage return and line feed turned into one
\* space, cut to its first 32 characters.
Rendered(t) ==
    CallByValue(LAMBDA u :
        FirstChars([i \in 1..Len(u) |-> IF u[i] \in {"\r", "\n"} THEN " " ELSE u[i]], 32),
        strip(t))

\* The texts handed to lcd.print() by the current command, in order.
Printed == [i \in 1..Len(OpsIn(calls, "lcd.print")) |-> OpsIn(calls, "lcd.print")[i].arg]

\* One row of the display showing a text from its first cell on.
RowShowing(t) == [i \in 1..16 |-> IF i <= Len(t) THEN t[i] ELSE " "]

\* C10: for a text t given to setText on a bus with a display handle, with
\* T the text trimmed, its carriage returns and line feeds turned into
\* spaces, cut to 32 characters: line 1 is written with characters 1..16 of
\* T, line 2 is written with characters 17..32 of T and only when there are
\* any, nothing else is written, so at most 32 characters are rendered; a
\* 40-character text renders 32, and "1234567890123456EXTRA" renders
\* "1234567890123456" on line 1 and "EXTRA" on line 2.
C10_TextLayout ==
    \A t \in DisplayTexts :
        (pc = "led_off" /\ lcd_driver.present
           /\ line.text = Call(W_setText, <<IntStr(0), t>>)) =>
            \E T \in {Rendered(t)} :
                /\ stdout = <<"\n">>
                /\ Len(T) <= 32
                /\ Printed = IF Len(T) > 16
                             THEN <<SubSeq(T, 1, 16), SubSeq(T, 17, Len(T))>>
                             ELSE <<T>>
                /\ Len(T) > 16 =>
                      OpsIn(calls, "lcd.setCursor")
                         = <<[op |-> "lcd.setCursor", id |-> lcd_cache[<<"i","2","c","0">>],
                              arg |-> <<0, 1>>]>>
                /\ Len(T) <= 16 => OpsIn(calls, "lcd.setCursor") = <<>>
                /\ Len(t) = 40 => Len(Printed[1]) + Len(Printed[2]) = 32
                /\ t = SubSeq(MasterText, 1, 21) =>
                      Printed = << <<"1","2","3","4","5","6","7","8",
                                     "9","0","1","2","3","4","5","6">>,
                                   <<"E","X","T","R","A">> >>
                /\ hw_last.clearOk =>
                      lcd_hw[<<"i","2","c","0">>].rows
                         = <<RowShowing(FirstChars(T, 16)),
                             RowShowing(IF Len(T) > 16 THEN SubSeq(T, 17, Len(T)) ELSE <<>>)>>

\* A 40-character text was given to setText: line 2 was written with its
\* characters 17..32 and the display shows 32 characters.
C10_Witness ==
    /\ pc = "led_off"
    /\ line.text = Call(W_setText, <<IntStr(0), SubSeq(MasterText, 1, 40)>>)
    /\ stdout = <<"\n">>
    /\ hw_last.clearOk
    /\ Len(Printed) = 2
    /\ Printed[2] = SubSeq(MasterText, 17, 32)
    /\ lcd_hw[<<"i","2","c","0">>].rows[2] = SubSeq(MasterText, 17, 32)

\* The positions of a character in a text.
Positions(t, c) == {i \in 1..Len(t) : t[i] = c}

\* The least and the greatest element of a non-empty set of numbers.
Least(S) == CHOOSE i \in S : \A j \in S : i <= j

Greatest(S) == CHOOSE i \in S : \A j \in S : j <= i

\* The positions of the non-blank characters of a text.
NonBlank(t) == {i \in 1..Len(t) : ~IsSpace(t[i])}

\* A text without its leading and trailing blanks.
Trimmed(t) == IF NonBlank(t) = {} THEN <<>> ELSE SubSeq(t, Least(NonBlank(t)), Greatest(NonBlank(t)))

\* The line is empty or blank, has no "(", has "(" as its first non-blank
\* character, or has no ")" after its first "(".
NotACall(t) ==
    \/ NonBlank(t) = {}
    \/ Positions(t, "(") = {}
    \/ Least(Positions(t, "(")) = Least(NonBlank(t))
    \/ \A i \in Positions(t, ")") : i < Least(Positions(t, "("))

\* The line as the parser can meet it: as read, and with blanks around it.
Padded(t) == {t, <<" ">> \o t \o <<" ">>}

\* C11: the parser rejects a line exactly when it is empty or blank, has no
\* "(", has "(" as its first non-blank character or has no ")" after its
\* first "("; otherwise the name is the text before the first "(" and the
\* argument string is the text between the first "(" and the last ")", both
\* without surrounding blanks; and the line cut after its last ")" parses to
\* the same result.
C11_ParseCall ==
    line.ok =>
        \A t \in Padded(line.text) :
            /\ ~_parse_call(t).ok <=> NotACall(t)
            /\ ~NotACall(t) =>
                  /\ _parse_call(t).name
                        = Trimmed(SubSeq(t, 1, Least(Positions(t, "(")) - 1))
                  /\ _parse_call(t).args_str
                        = Trimmed(SubSeq(t, Least(Positions(t, "(")) + 1,
                                         Greatest(Positions(t, ")")) - 1))
            /\ Positions(t, ")") # {} =>
                  _parse_call(t) = _parse_call(SubSeq(t, 1, Greatest(Positions(t, ")"))))

\* The line a()) was handled: its argument string runs to the last ")".
C11_Witness ==
    /\ pc = "led_off"
    /\ line.text = <<"a", "(", ")", ")">>
    /\ _parse_call(line.text) = [ok |-> TRUE, name |-> <<"a">>, args_str |-> <<")">>]
    /\ stdout = ErrorLine

\* The n-th smallest element of a set of numbers.
Nth(S, n) == CHOOSE x \in S : Cardinality({y \in S : y < x}) = n - 1

\* The pieces of a text between its commas, in order.
Segments(t) ==
    LET cuts == Positions(t, ",") \cup {0}
        last == Cardinality(cuts)
    IN  [n \in 1..last |->
            SubSeq(t, Nth(cuts, n) + 1,
                   IF n = last THEN Len(t) ELSE Nth(cuts, n + 1) - 1)]

\* Each text of a sequence trimmed, the empty ones dropped.
TrimmedNonEmpty(ts) ==
    SelectSeq([i \in 1..Len(ts) |-> Trimmed(ts[i])], LAMBDA u : u # <<>>)

\* A text split on every comma, the pieces trimmed, the empty ones dropped.
Pieces(t) == TrimmedNonEmpty(Segments(t))

\* A text split at its first comma only, the pieces trimmed, the empty ones
\* dropped.
FirstCommaPieces(t) ==
    IF Positions(t, ",") = {} THEN TrimmedNonEmpty(<<t>>)
    ELSE TrimmedNonEmpty(<<SubSeq(t, 1, Least(Positions(t, ",")) - 1),
                           SubSeq(t, Least(Positions(t, ",")) + 1, Len(t))>>)

\* The texts of a sequence one after the other.
RECURSIVE Flat(_)
Flat(ts) == IF Len(ts) = 0 THEN <<>> ELSE Head(ts) \o Flat(Tail(ts))

\* C12: the argument string of setText is split at its first comma only,
\* the two pieces trimmed: with a bus token before the first comma and a
\* text after it, whatever further commas the text has, setText on a bus
\* with a display is answered with success and what it writes to the
\* display is that whole text, rendered; the argument string of every other
\* command is split on every comma, each piece trimmed and the empty pieces
\* dropped, and the command is answered with the error response when the
\* number of these pieces is not the number of its arguments.
C12_SplitArgs ==
    (pc = "led_off" /\ _parse_call(line.text).ok) =>
        \E a \in {_parse_call(line.text).args_str} :
        \E cmd \in {lower(_parse_call(line.text).name)} :
            /\ _split_args(a, 1) = FirstCommaPieces(a)
            /\ _split_args(a, -1) = Pieces(a)
            /\ (cmd = lower(W_setText) /\ Len(FirstCommaPieces(a)) = 2
                  /\ FirstCommaPieces(a)[1] = <<"0">>) =>
                  /\ stdout = <<"\n">>
                  /\ Flat(Printed) = Rendered(FirstCommaPieces(a)[2])
                  /\ Positions(a, ",") # {}
                  /\ FirstCommaPieces(a)[2]
                        = Trimmed(SubSeq(a, Least(Positions(a, ",")) + 1, Len(a)))
            /\ (cmd \in DOMAIN CommandArity /\ cmd # lower(W_setText)) =>
                  /\ Len(Pieces(a)) # CommandArity[cmd] => stdout = ErrorLine /\ calls = <<>>
                  /\ Len(Pieces(a)) = CommandArity[cmd] => stdout # ErrorLine

\* setText(0,a,,b) was answered with success and wrote a,,b to the display.
C12_Witness ==
    /\ pc = "led_off"
    /\ line.text = Call(W_setText, <<IntStr(0), <<"a",",",",","b">> >>)
    /\ stdout = <<"\n">>
    /\ Printed = << <<"a",",",",","b">> >>

\* The ultrasonicRead command as the host spells it.
RangeCall(p) == Call(W_ultrasonicRead, <<IntStr(p)>>)

\* The largest distance a pulse within the timeout of 30000 us stands for.
MaxDistance == (2 * 30000 + 58) \div 116

\* C13: ultrasonicRead(P) on a recognized digital pin whose echo lasted
\* d microseconds answers the integer n with n <= d/58 + 1/2 < n + 1 when
\* d > 0 (d = 580 answers 10), answers the error response when d <= 0 or
\* the measurement timed out, and never answers a negative distance.
C13_RoundedDistance ==
    \A p \in DIGITAL_PINS :
        (pc = "led_off" /\ line.text = RangeCall(p)) =>
            /\ (hw_last.pulse.raises \/ hw_last.pulse.us <= 0) => stdout = ErrorLine
            /\ (~hw_last.pulse.raises /\ hw_last.pulse.us > 0) =>
                  \E n \in 0..MaxDistance :
                      /\ 58 * n - 29 <= hw_last.pulse.us
                      /\ hw_last.pulse.us < 58 * n + 29
                      /\ stdout = NumberLine(n)
            /\ (~hw_last.pulse.raises /\ hw_last.pulse.us = 580) => stdout = NumberLine(10)
            /\ Head(stdout) # "-"

\* An echo of 29 us was answered with 1.
C13_Witness ==
    /\ pc = "led_off" /\ line.text = RangeCall(18)
    /\ ~hw_last.pulse.raises /\ hw_last.pulse.us = 29
    /\ stdout = NumberLine(1)

\* C14: the LED is on exactly from the step that follows the reading of a
\* line to the end of the dispatch call: the step after a line is read
\* switches it on before the dispatch, the step after the dispatch switches
\* it off whether the command was answered with success, answered with the
\* error response or raised, every LED that is on goes off, and the LED is
\* off whenever the loop waits to read a line.
C14_LedWhileHandling ==
    /\ [](led = 1 <=> pc \in {"dispatch", "led_off"})
    /\ [](pc = "read" => led = 0)
    /\ [][pc = "led_on" => led' = 1 /\ pc' = "dispatch"]_vars
    /\ [][pc = "led_off" => led' = 0]_vars
    /\ (led = 1) ~> (led = 0)

\* The loop waits for a line with the LED off after pinMode(16,BOGUS), whose
\* adapter raised.
C14_Witness ==
    /\ pc = "read" /\ led = 0
    /\ line.ok /\ line.text = Call(W_pinMode, <<IntStr(16), W_BOGUS>>)
    /\ caught = "ValueError" /\ stdout = ErrorLine

\* C15: pinMode on an analog channel (0, 1, 2) is answered with the empty
\* line for every mode token, recognized or not, and changes nothing: it
\* makes no driver call and leaves every digital pin, every PWM channel,
\* every display and every cache as it was.
C15_AnalogPinModeNoOp ==
    [][ (pc = "dispatch"
           /\ line.text \in {Call(W_pinMode, <<IntStr(a), m>>) :
                                a \in ANALOG_PINS, m \in ModeTokens})
        => /\ stdout' = <<"\n">>
           /\ calls' = <<>> /\ caught' = ""
           /\ UNCHANGED <<pins, pwm, pwm_made, lcd_cache, lcd_made, lcd_hw, dht_cache>> ]_vars

\* pinMode(1,BOGUS) was answered with success while a pin was an input, a
\* PWM channel existed, a measurement was stored and the display was written.
C15_Witness ==
    /\ pc = "led_off"
    /\ line.text = Call(W_pinMode, <<IntStr(1), W_BOGUS>>)
    /\ stdout = <<"\n">>
    /\ pins[16].mode = "IN" /\ pins[18].value = 1
    /\ DOMAIN pwm # {} /\ DOMAIN dht_cache # {} /\ DOMAIN lcd_cache # {}

\* C16 as the specification states it: setText on bus 0 with the empty text,
\* after any content and with the clear step succeeding, leaves line 1 and
\* line 2 of the display empty.
C16_EmptyTextClears ==
    (pc = "led_off" /\ lcd_driver.present /\ hw_last.clearOk
       /\ line.text \in EmptyTextLines) =>
        lcd_hw[<<"i","2","c","0">>].rows = <<BlankRow, BlankRow>>

\* One driver call on a pin, as the call log records it.
PinCall(op, p, arg) == [op |-> op, id |-> p, arg |-> arg]

\* C17: every ultrasonicRead(P) on a recognized digital pin makes these
\* driver calls and no others, in this order: P to output, P low, P high,
\* P low, P to input, the measurement of the high pulse on P with a timeout
\* of 30000 us; so the measurement is never started while P is an output,
\* and P is an input when the command completes, whether the measurement
\* succeeded, timed out or reported a duration that is not positive.  An
\* ultrasonicRead on a pin that is not a digital pin makes no driver call
\* and leaves every pin as it was.
C17_RangingSequence ==
    /\ [](\A p \in DIGITAL_PINS :
            (pc = "led_off" /\ line.text = RangeCall(p)) =>
                /\ calls = << PinCall("Pin.init", p, <<"OUT">>),
                              PinCall("Pin.value", p, <<0>>),
                              PinCall("Pin.value", p, <<1>>),
                              PinCall("Pin.value", p, <<0>>),
                              PinCall("Pin.init", p, <<"IN">>),
                              PinCall("time_pulse_us", p, <<1, 30000>>) >>
                /\ pins[p].mode = "IN")
    /\ [][ (pc = "dispatch" /\ line.text \in {RangeCall(q) : q \in {0, 17}})
           => calls' = <<>> /\ pins' = pins /\ stdout' = ErrorLine ]_vars

\* ultrasonicRead(16) timed out on a pin that was an output driven high: the
\* six calls were made and the pin is an input.
C17_Witness ==
    /\ pc = "led_off" /\ line.text = RangeCall(16)
    /\ prev = Call(W_digitalWrite, <<IntStr(16), W_HIGH>>)
    /\ hw_last.pulse.raises /\ stdout = ErrorLine
    /\ Len(calls) = 6 /\ calls[6].op = "time_pulse_us"
    /\ pins[16] = [mode |-> "IN", value |-> 0]

\* The names of the calls the current command made on display handles.
LcdOpNames ==
    CallByValue(LAMBDA ops : [i \in 1..Len(ops) |-> ops[i].op],
                SelectSeq(calls, LAMBDA c : c.op \in LcdOps))

\* C18: when the clear step of a setText on a bus with a display handle
\* fails, the command still homes the cursor, writes line 1, writes line 2
\* when it is not empty, and is answered with success: the failure is not
\* caught by the dispatcher and gives no error response; what is written
\* is what is written when the clear succeeds, and line 1 of the display
\* starts with it.
C18_ClearFailureSwallowed ==
    \A t \in DisplayTexts :
        (pc = "led_off" /\ lcd_driver.present /\ ~hw_last.clearOk
           /\ line.text = Call(W_setText, <<IntStr(0), t>>)) =>
            \E T \in {Rendered(t)} :
                /\ stdout = <<"\n">> /\ caught = ""
                /\ LcdOpNames = IF Len(T) > 16
                                THEN <<"lcd.clear", "lcd.home", "lcd.print",
                                       "lcd.setCursor", "lcd.print">>
                                ELSE <<"lcd.clear", "lcd.home", "lcd.print">>
                /\ Flat(Printed) = T
                /\ FirstChars(lcd_hw[<<"i","2","c","0">>].rows[1], Len(FirstChars(T, 16)))
                      = FirstChars(T, 16)

\* setText(0, hi ) was answered with success although its clear failed, and
\* line 1 shows hi followed by what was there before.
C18_Witness ==
    /\ pc = "led_off" /\ lcd_driver.present /\ ~hw_last.clearOk
    /\ line.text = Call(W_setText, <<IntStr(0), <<" ","h","i"," ">> >>)
    /\ stdout = <<"\n">>
    /\ Printed = << <<"h","i">> >>
    /\ lcd_hw[<<"i","2","c","0">>].rows[1] # RowShowing(<<"h","i">>)
    /\ lcd_hw[<<"i","2","c","0">>].rows[2] # BlankRow

\* The line is a setText or setRGB call with the right number of arguments
\* whose bus token is none of 0, 1, i2c0, i2c1.
UnknownBus(text) ==
    /\ ~Rejectable(text)
    /\ lower(_parse_call(text).name) \in {lower(W_setText), lower(W_setRGB)}
    /\ AddressedBus(text) = <<>>

\* C19: a command the dispatcher rejects (a line that is no call, a name
\* that is no command, a wrong number of arguments, a non-integer where an
\* integer is required, an unknown bus token in setText or setRGB) is
\* answered with the error response without any driver call and without an
\* adapter raising, and leaves every digital pin, every PWM channel, every
\* display and its handle, and every stored measurement as it was.
C19_RejectionChangesNothing ==
    [][ (pc = "dispatch" /\ (Rejectable(line.text) \/ UnknownBus(line.text)))
        => /\ stdout' = ErrorLine
           /\ calls' = <<>> /\ caught' = ""
           /\ UNCHANGED <<pins, pwm, pwm_made, lcd_cache, lcd_made, lcd_hw, dht_cache>> ]_vars

\* setRGB(0,x,2,3) was rejected while a pin was driven high, a PWM channel
\* existed and no display handle had been made.
C19_Witness ==
    /\ pc = "led_off"
    /\ line.text = Call(W_setRGB, <<IntStr(0), W_x, IntStr(2), IntStr(3)>>)
    /\ stdout = ErrorLine /\ calls = <<>>
    /\ lcd_driver.present /\ DOMAIN lcd_cache = {}
    /\ pins[16].value = 1 /\ DOMAIN pwm # {}

\* The commands that name a pin as their first argument.
PinCommands ==
    {lower(W_pinMode), lower(W_digitalWrite), lower(W_digitalRead),
     lower(W_analogWrite), lower(W_ultrasonicRead), lower(W_dhtRead)}

\* The pin a command line names; -1 if it names none.
NamedPin(text) ==
    CallByValue(LAMBDA c :
        IF ~c.ok \/ lower(c.name) \notin PinCommands THEN -1
        ELSE CallByValue(LAMBDA parts :
                 IF Len(parts) = 0 THEN -1
                 ELSE CallByValue(LAMBDA n : IF n.ok THEN n.val ELSE -1,
                                  _parse_int(parts[1])),
                 _split_args(c.args_str, -1)),
        _parse_call(text))

\* Two tables agree on a key: both lack it, or both hold the same entry.
SameAt(f, g, k) ==
    /\ k \in DOMAIN f <=> k \in DOMAIN g
    /\ k \in DOMAIN f => f[k] = g[k]

\* C20: a command that names pin P leaves the direction and level of every
\* other digital pin, the PWM channel of every other pin and the stored
\* measurement of every key with another pin as they were; a setText or
\* setRGB on one bus neither makes nor changes the display handle of the
\* other bus; and a setText or setRGB changes no pin, no PWM channel and no
\* stored measurement.
C20_Isolation ==
    [][ pc = "dispatch" =>
          \E P \in {NamedPin(line.text)} : \E B \in {AddressedBus(line.text)} :
              /\ \A q \in DIGITAL_PINS :
                    (P \notin {-1, q}) =>
                        /\ pins'[q] = pins[q]
                        /\ SameAt(pwm, pwm', q)
                        /\ pwm_made'[q] = pwm_made[q]
              /\ \A k \in DOMAIN dht_cache \cup DOMAIN dht_cache' :
                    (P \notin {-1, k[1]}) => SameAt(dht_cache, dht_cache', k)
              /\ \A o \in I2C_BUSES :
                    (B \notin {<<>>, o}) =>
                        /\ SameAt(lcd_cache, lcd_cache', o)
                        /\ lcd_made'[o] = lcd_made[o]
                        /\ lcd_hw'[o] = lcd_hw[o]
              /\ (IsCallOf(line.text, W_setText) \/ IsCallOf(line.text, W_setRGB)) =>
                    UNCHANGED <<pins, pwm, pwm_made, dht_cache>> ]_vars

\* analogWrite(18,18) was answered with success and the channel of pin 16
\* keeps its duty, while pin 16 is driven high, measurements are stored for
\* pins 16 and 4, and only bus i2c0 holds a display handle.
C20_Witness ==
    /\ pc = "led_off"
    /\ line.text = Call(W_analogWrite, <<IntStr(18), IntStr(18)>>)
    /\ stdout = <<"\n">>
    /\ DOMAIN pwm = {16, 18} /\ pwm[16].duty = 16 * 257 /\ pwm[18].duty = 18 * 257
    /\ pins[16] = [mode |-> "OUT", value |-> 1]
    /\ {k[1] : k \in DOMAIN dht_cache} = {4, 16}
    /\ DOMAIN lcd_cache = {<<"i","2","c","0">>}

====
